---- MODULE Spec2Model ----
(***************************************************************************)
(* A model of the write-path engine of s3fs-fuse: the per-handle multipart *)
(* upload coordinator PseudoFdInfo (src/src/fdcache_fdinfo.cpp).           *)
(*                                                                         *)
(* Offsets and sizes are counted in units of MIN_MULTIPART_SIZE (5 MiB),   *)
(* so that the store's minimum part size is 1 and FIVE_GB is 1024.         *)
(*                                                                         *)
(* Specifications:                                                         *)
(*   SpecPlan   ExtractUploadPartsFromAllArea applied to bounded inputs    *)
(*   Spec       dispatching thread, workers and a second thread that       *)
(*              joins or cancels, interleaved at lock granularity          *)
(*   SpecFlush  one handle in streaming mode: writes, boundary flushes,    *)
(*              the whole-file flush and the end of the session, one step  *)
(*              for each critical section and each request, and the        *)
(*              workers                                                    *)
(*   SpecParts  the part-list interface: initiate, InsertUploadPart,       *)
(*              AppendUploadPart, GetEtaglist, ClearUploadInfo             *)
(*   SpecCache  the stat cache declared in src/src/cache.h                 *)
(*   SpecEvict  the stat cache with three paths, for the order of eviction *)
(*   SpecPages  the page list of one open file                             *)
(*   SpecStrings the encoders and decoders of src/src/string_util.cpp      *)
(*   SpecSignals, FairSpecSignals  the SIGUSR1 thread of                   *)
(*              src/src/sighandlers.cpp                                    *)
(*   SpecLock   Spec from the start of the session on                      *)
(*   SpecAbort  the planner on lists of parts appended one behind the     *)
(*              other, where a slab can hold two parts                     *)
(*   FairSpec   Spec with every thread and worker scheduled fairly         *)
(*   SpecStream the stream of writes and boundary flushes with the         *)
(*              workers of the parts                                       *)
(*   SpecCalls, SpecRace, SpecInflight  calls without a session, two       *)
(*              boundary flushes at once, the planner with running workers *)
(*   SpecHandles  handle objects constructed, set, cleared and destroyed   *)
(*              by threads of their own, one step for each section         *)
(*   SpecUploadFd  one handle object and its duplicated upload descriptor  *)
(*   SpecExtract  ExtractUploadPartsFromUntreatedArea applied to bounded   *)
(*              inputs                                                     *)
(***************************************************************************)
EXTENDS Integers, Sequences, FiniteSets, TLC

VARIABLES
    \* ---- PseudoFdInfo fields
    upload_id,        \* TRUE iff upload_id is not empty (a session is active)
    upload_list,      \* sequence of fileparts, in the order of the vector
    instruct_count,   \* number of worker instructions counted
    last_result,      \* errno recorded for the session (0, or negative)
    uploaded_sem,     \* tokens in the semaphore uploaded_sem
    upload_list_lock, \* the thread that holds upload_list_lock, or NoThread
    \* ---- configuration and the file of the handle
    max_mp_size,      \* S3fsCurl::GetMultipartSize()
    file_size,        \* size of the local file
    use_copy,         \* whether copy multipart upload is available
    untreated,        \* UntreatedParts: sorted, coalesced list of areas
    last_untreated,   \* start of the area that holds the last tag, or -1
    \* ---- the last call on the handle (sequential specifications)
    call,             \* record of the operation, its arguments and results
    \* ---- threads (Spec)
    pc,               \* position of the two request threads
    local,            \* locals of the two request threads
    worker,           \* position of each worker
    hist,             \* what the claims need remembered of the run
    \* ---- the handle objects and the registry of their identifiers
    handle,           \* pseudo_fd, physical_fd, flags, upload_fd of each object
    pseudofd_list,    \* PseudoFdManager: the identifiers in use
    \* ---- StatCache (src/src/cache.h)
    stat_cache,            \* path -> stat_cache_entry, for the paths cached
    notruncate_file_cache, \* parent directory -> names not to truncate
    IsExpireTime,          \* whether entries expire
    IsExpireIntervalType,  \* whether a hit renews cache_date
    ExpireTime,            \* the longest age of an entry that is served
    CacheSize,             \* the number of entries to truncate to
    UseNegativeCache,      \* whether entries for missing objects are kept
    now,                   \* the clock
    \* ---- PageList of one file
    pages,            \* the pages, in the order of their offsets
    \* ---- string utilities (src/src/string_util.cpp)
    input,            \* the byte string a conversion is applied to
    \* ---- S3fsSignals (src/src/sighandlers.cpp)
    enableUsr1,       \* S3fsSignals::enableUsr1
    pSemUsr1,         \* tokens of the semaphore, or Null before it is made
    pThreadUsr1       \* the thread object of CheckCacheWorker, or Null

sessVars == <<upload_id, upload_list, instruct_count, last_result, uploaded_sem, upload_list_lock>>
fileVars == <<max_mp_size, file_size, use_copy, untreated, last_untreated>>
thrVars  == <<pc, local, worker, hist>>
hdlVars  == <<handle, pseudofd_list>>
cacheVars == <<stat_cache, notruncate_file_cache, IsExpireTime, IsExpireIntervalType,
               ExpireTime, CacheSize, UseNegativeCache, now>>
sigVars  == <<enableUsr1, pSemUsr1, pThreadUsr1>>
restVars == <<cacheVars, pages, input, sigVars>>
vars     == <<sessVars, fileVars, call, thrVars, hdlVars, restVars>>

-----------------------------------------------------------------------------
(* Bounds of the model *)

MaxFileSize == 6      \* largest file size drawn
MaxMpSize   == 3      \* largest multipart size drawn (the smallest is 2)
MaxAppended == 2      \* most parts in a list built by AppendUploadPart

(* Store constants, in units of 5 MiB *)
MIN_MULTIPART_SIZE == 1
FIVE_GB            == 1024

(* errno values *)
EIO       == 5
EBADF     == 9
EACCES    == 13
ECANCELED == 125

\* the results of pre_multipart_upload_request (line 415): 0, or the
\* negative errno of the failed initiate request
PreResults == {0, -EIO, -EACCES}

\* a pointer that is not set
Null == -1

\* the access modes of open(2)
O_RDONLY == 0
O_WRONLY == 1
O_RDWR   == 2

MpSizes == 2..MaxMpSize

-----------------------------------------------------------------------------
(* Records *)

Area(s, z)    == [start |-> s, size |-> z]
MpPart(s, z, n) == [start |-> s, size |-> z, part_num |-> n]
\* filepart(false, physical_fd, start, size, is_copy, petag), petag->part_num;
\* etag: the etag entity of the part (petag->etag) has been filled
FilePart(s, z, n, c) ==
    [startpos |-> s, size |-> z, part_num |-> n, is_copy |-> c, uploaded |-> FALSE, etag |-> FALSE]

Erase(seq, i) == SubSeq(seq, 1, i - 1) \o SubSeq(seq, i + 1, Len(seq))

Range(seq) == {seq[i] : i \in 1..Len(seq)}

NoCall == [op |-> "none"]

-----------------------------------------------------------------------------
(* ExtractUploadPartsFromAllArea *)

\* lines 741-796: move the untreated areas that overlap the current area
\* from dup_untreated_list (iterator di) to cur_untreated_list
RECURSIVE ExtractCurUntreated(_, _, _, _, _)
ExtractCurUntreated(dup, di, cur, cur_start, cur_size) ==
    IF di > Len(dup) THEN [dup |-> dup, di |-> di, cur |-> cur]
    ELSE LET u == dup[di] IN
      IF u.start < cur_start + cur_size /\ cur_start < u.start + u.size
      THEN LET ts == IF u.start < cur_start THEN cur_start ELSE u.start
               tz == IF u.start < cur_start THEN u.size - (cur_start - u.start) ELSE u.size
           IN IF ts + tz <= cur_start + cur_size
              THEN ExtractCurUntreated(Erase(dup, di), di, Append(cur, Area(ts, tz)), cur_start, cur_size)
              ELSE LET tz2 == (cur_start + cur_size) - ts IN
                   ExtractCurUntreated(
                       [dup EXCEPT ![di] = Area(ts + tz2, (u.start + u.size) - (cur_start + cur_size))],
                       di, Append(cur, Area(ts, tz2)), cur_start, cur_size)
      ELSE IF cur_start + cur_size - 1 < u.start
           THEN [dup |-> dup, di |-> di, cur |-> cur]
           ELSE ExtractCurUntreated(dup, di + 1, cur, cur_start, cur_size)

\* lines 806-825: find the uploaded part that overlaps the current area;
\* ov = 0 stands for upload_list.end(); ok = FALSE is the "return false"
RECURSIVE FindOverlapUploaded(_, _, _, _, _)
FindOverlapUploaded(ul, ui, ov, cur_start, cur_size) ==
    IF ui > Len(ul) THEN [ui |-> ui, ov |-> ov, ok |-> TRUE]
    ELSE LET p == ul[ui] IN
      IF cur_start < p.startpos + p.size /\ p.startpos < cur_start + cur_size
      THEN IF ov # 0 THEN [ui |-> ui, ov |-> ov, ok |-> FALSE]
           ELSE FindOverlapUploaded(ul, ui + 1, ui, cur_start, cur_size)
      ELSE IF cur_start + cur_size - 1 < p.startpos
           THEN [ui |-> ui, ov |-> ov, ok |-> TRUE]
           ELSE FindOverlapUploaded(ul, ui + 1, ov, cur_start, cur_size)

\* a unification test that does not ask the copy area to end where the
\* current area starts
CanUnifyCopy_AnyRemainder(cp, tmp_cur_start, tmp_cur_size, ustart, scale) ==
    LET c == cp[Len(cp)] IN
       /\ c.start + c.size = tmp_cur_start
       /\ c.size + (ustart - tmp_cur_start) <= FIVE_GB * scale

CanUnifyCopy_NotContiguous(cp, tmp_cur_start, tmp_cur_size, ustart, scale) ==
    LET c == cp[Len(cp)] IN
       /\ c.size + (ustart - tmp_cur_start) <= FIVE_GB * scale
       /\ (tmp_cur_start + tmp_cur_size) - ustart >= MIN_MULTIPART_SIZE * scale

\* lines 925-927: may the gap in front of the first untreated area be
\* unified with the last item of to_copy_list; the offsets are counted in
\* units of MIN_MULTIPART_SIZE / scale bytes
CanUnifyCopy(cp, tmp_cur_start, tmp_cur_size, ustart, scale) ==
    LET c == cp[Len(cp)] IN
       /\ c.start + c.size = tmp_cur_start
       /\ c.size + (ustart - tmp_cur_start) <= FIVE_GB * scale
       /\ (tmp_cur_start + tmp_cur_size) - ustart >= MIN_MULTIPART_SIZE * scale

\* lines 907-953: the loop over cur_untreated_list of an area that no
\* uploaded part overlaps; g carries the loop's variables
RECURSIVE GapLoop(_, _, _, _)
GapLoop(cur, i, g, copy) ==
    IF i > Len(cur) THEN g
    ELSE LET u      == cur[i]
             hasgap == g.tmp_cur_start < u.start
             unify  == /\ hasgap
                       /\ i = 1                 \* first_area
                       /\ copy
                       /\ Len(g.cp) > 0
                       /\ CanUnifyCopy(g.cp, g.tmp_cur_start, g.tmp_cur_size, u.start, g.scale)
             g1     == IF ~hasgap THEN g
                       ELSE IF unify
                       THEN [g EXCEPT !.cp[Len(g.cp)].size = @ + (u.start - g.tmp_cur_start),
                                      !.changed_size  = @ - (u.start - g.changed_start),
                                      !.changed_start = u.start]
                       ELSE [g EXCEPT !.dl = Append(@, Area(g.tmp_cur_start, u.start - g.tmp_cur_start))]
             g2     == [g1 EXCEPT !.tmp_cur_size  = (g.tmp_cur_start + g.tmp_cur_size) - (u.start + u.size),
                                  !.tmp_cur_start = u.start + u.size]
         IN GapLoop(cur, i + 1, g2, copy)

\* a planner that uploads every area without untreated data that is not
\* uploaded yet, whether or not the copy is available
PlanCleanArea_NeverCopies(st, ov, cur_start, cur_size, part_num, copy) ==
    IF ov # 0 THEN st
    ELSE [st EXCEPT !.dl = Append(@, Area(cur_start, cur_size)),
                    !.up = Append(@, MpPart(cur_start, cur_size, part_num))]

\* lines 831-860: the current area holds no untreated area
PlanCleanArea(st, ov, cur_start, cur_size, part_num, copy) ==
    IF ov # 0 THEN st                           \* already uploaded
    ELSE IF copy
    THEN [st EXCEPT !.cp = Append(@, MpPart(cur_start, cur_size, part_num))]
    ELSE [st EXCEPT !.dl = Append(@, Area(cur_start, cur_size)),
                    !.up = Append(@, MpPart(cur_start, cur_size, part_num))]

\* a planner that cancels the overlapped part and uploads nothing in its place
PlanCancelArea_NoUpload(st, ov, cur_start, cur_size, part_num) ==
    [st EXCEPT !.wait   = @ \/ ~st.ul[ov].uploaded,
               !.cancel = Append(@, st.ul[ov]),
               !.ul     = Erase(@, ov),
               !.ui     = ov]

\* a planner that copies the overlapped part to the cancel list and leaves
\* it in upload_list
PlanCancelArea_KeepsPart(st, ov, cur_start, cur_size, part_num) ==
    [st EXCEPT !.wait   = @ \/ ~st.ul[ov].uploaded,
               !.cancel = Append(@, st.ul[ov]),
               !.up     = Append(@, MpPart(cur_start, cur_size, part_num))]

\* lines 865-885: untreated area found in an area that is also uploaded
PlanCancelArea(st, ov, cur_start, cur_size, part_num) ==
    [st EXCEPT !.wait   = @ \/ ~st.ul[ov].uploaded,
               !.cancel = Append(@, st.ul[ov]),
               !.ul     = Erase(@, ov),
               !.ui     = ov,                   \* uploaded_iter = upload_list.erase(...)
               !.up     = Append(@, MpPart(cur_start, cur_size, part_num))]

\* a planner that uploads the whole current area although the gap in front
\* of it was given to the copy entry
PlanGapArea_WholeArea(st, cur, cur_start, cur_size, part_num, copy) ==
    LET g   == GapLoop(cur, 1,
                       [tmp_cur_start |-> cur_start, tmp_cur_size |-> cur_size,
                        changed_start |-> cur_start, changed_size |-> cur_size,
                        cp |-> st.cp, dl |-> st.dl, scale |-> st.scale], copy)
        dl2 == IF 0 < g.tmp_cur_size
               THEN Append(g.dl, Area(g.tmp_cur_start, g.tmp_cur_size))
               ELSE g.dl
    IN [st EXCEPT !.cp = g.cp,
                  !.dl = dl2,
                  !.up = Append(@, MpPart(cur_start, cur_size, part_num))]

\* lines 886-968: untreated area found in an area no uploaded part overlaps
PlanGapArea(st, cur, cur_start, cur_size, part_num, copy) ==
    LET g   == GapLoop(cur, 1,
                       [tmp_cur_start |-> cur_start, tmp_cur_size |-> cur_size,
                        changed_start |-> cur_start, changed_size |-> cur_size,
                        cp |-> st.cp, dl |-> st.dl, scale |-> st.scale], copy)
        dl2 == IF 0 < g.tmp_cur_size
               THEN Append(g.dl, Area(g.tmp_cur_start, g.tmp_cur_size))
               ELSE g.dl
    IN [st EXCEPT !.cp = g.cp,
                  !.dl = dl2,
                  !.up = Append(@, MpPart(g.changed_start, g.changed_size, part_num))]

\* line 830: the part number of the current area
PartNum_FromZero(cur_start, mp) == cur_start \div mp

PartNum(cur_start, mp) == (cur_start \div mp) + 1

\* no area has failed
NoFailedArea == [cur_start |-> -1, cur_size |-> 0, first |-> 0, second |-> 0]

\* lines 730-970: the loop over the areas of max_mp_size from offset 0; on
\* the return false of line 817, failed holds the current area and the
\* places in upload_list of overlap_uploaded_iter (first) and
\* uploaded_iter (second)
RECURSIVE PlanLoop(_, _, _, _, _)
PlanLoop(st, cur_start, mp, fsize, copy) ==
    IF ~(cur_start < fsize) THEN st
    ELSE LET cur_size == IF cur_start + mp <= fsize THEN mp ELSE fsize - cur_start
             e        == ExtractCurUntreated(st.dup, st.di, <<>>, cur_start, cur_size)
             f        == FindOverlapUploaded(st.ul, st.ui, 0, cur_start, cur_size)
             st1      == [st EXCEPT !.dup = e.dup, !.di = e.di, !.ui = f.ui]
             part_num == PartNum(cur_start, mp)
         IN IF ~f.ok
            THEN [st1 EXCEPT !.ok = FALSE,
                             !.failed = [cur_start |-> cur_start, cur_size |-> cur_size,
                                         first |-> f.ov, second |-> f.ui]]
            ELSE PlanLoop(
                   IF e.cur = <<>> THEN PlanCleanArea(st1, f.ov, cur_start, cur_size, part_num, copy)
                   ELSE IF f.ov # 0 THEN PlanCancelArea(st1, f.ov, cur_start, cur_size, part_num)
                   ELSE PlanGapArea(st1, e.cur, cur_start, cur_size, part_num, copy),
                   cur_start + cur_size, mp, fsize, copy)

\* lines 706-972; the result holds the return value (ok), the four output
\* lists, wait_upload_complete (wait) and the upload_list it leaves (ul)
ExtractUploadPartsFromAllAreaIn(scale, unt, ul, mp, fsize, copy) ==
    PlanLoop([dup |-> unt, di |-> 1, ul |-> ul, ui |-> 1,
              up |-> <<>>, cp |-> <<>>, dl |-> <<>>, cancel |-> <<>>,
              wait |-> FALSE, ok |-> TRUE, failed |-> NoFailedArea, scale |-> scale],
             0, mp, fsize, copy)

\* the same, with the offsets counted in units of MIN_MULTIPART_SIZE bytes
ExtractUploadPartsFromAllArea(unt, ul, mp, fsize, copy) ==
    ExtractUploadPartsFromAllAreaIn(1, unt, ul, mp, fsize, copy)

-----------------------------------------------------------------------------
(* Inputs of the planner: lists a handle can hold *)

\* the maximal runs of the set S of offsets within i..n-1, in order
RECURSIVE RunsFrom(_, _, _)
RunsFrom(S, i, n) ==
    IF i >= n THEN <<>>
    ELSE IF i \notin S THEN RunsFrom(S, i + 1, n)
    ELSE LET e == CHOOSE j \in (i + 1)..n :
                     /\ \A k \in i..(j - 1) : k \in S
                     /\ (j = n \/ j \notin S)
         IN <<Area(i, e - i)>> \o RunsFrom(S, e, n)

\* UntreatedParts keeps its list sorted by start with touching areas merged
UntreatedLists(fsize) == {RunsFrom(S, 0, fsize) : S \in SUBSET (0..(fsize - 1))}

SlabCount(mp, fsize) == (fsize + mp - 1) \div mp
SlabSize(k, mp, fsize) == IF (k + 1) * mp <= fsize THEN mp ELSE fsize - k * mp

\* the parts of the slabs in K, by part number
RECURSIVE SlabParts(_, _, _, _)
SlabParts(K, k, mp, fsize) ==
    IF k >= SlabCount(mp, fsize) THEN <<>>
    ELSE (IF k \in K THEN <<FilePart(k * mp, SlabSize(k, mp, fsize), k + 1, FALSE)>> ELSE <<>>)
         \o SlabParts(K, k + 1, mp, fsize)

\* lists whose parts are whole slabs (as the boundary flush and the planner
\* itself submit them)
SlabLists(mp, fsize) ==
    {SlabParts(K, 0, mp, fsize) : K \in SUBSET (0..(SlabCount(mp, fsize) - 1))}

\* lists built by AppendUploadPart alone (contiguous, sizes chosen by the
\* caller): at most n more parts from offset s, numbered from num
RECURSIVE AppendedFrom(_, _, _, _)
AppendedFrom(s, n, num, fsize) ==
    {<<>>} \cup
    (IF n = 0 THEN {}
     ELSE UNION {{<<FilePart(s, z, num, FALSE)>> \o rest :
                     rest \in AppendedFrom(s + z, n - 1, num + 1, fsize)} :
                 z \in 1..(fsize - s)})

AppendedLists(fsize) == AppendedFrom(0, MaxAppended, 1, fsize)

IsSlabPart(p, mp, fsize) ==
    /\ p.startpos % mp = 0
    /\ p.startpos < fsize
    /\ p.size = SlabSize(p.startpos \div mp, mp, fsize)

-----------------------------------------------------------------------------
(* Values shared by the specifications *)

\* who holds upload_list_lock: a request thread, a worker, or nobody
NoThread    == [thread |-> "none", worker |-> 0]
ByThread(t) == [thread |-> t, worker |-> 0]
ByWorker(w) == [thread |-> "none", worker |-> w]

SessionIdle ==
    /\ upload_id = FALSE
    /\ upload_list = <<>>
    /\ instruct_count = 0
    /\ last_result = 0
    /\ uploaded_sem = 0
    /\ upload_list_lock = NoThread

ThreadsIdle ==
    /\ pc = <<>>
    /\ local = <<>>
    /\ worker = <<>>
    /\ hist = <<>>

\* a handle object: PseudoFdInfo(fd, open_flags), lines 46-52
Handle(pseudo_fd, physical_fd, flags) ==
    [pseudo_fd |-> pseudo_fd, physical_fd |-> physical_fd, flags |-> flags, upload_fd |-> -1]

\* StatCache::StatCache: nothing cached, the clock at 0
NoStatCache ==
    /\ stat_cache = <<>>
    /\ notruncate_file_cache = <<>>
    /\ IsExpireTime = FALSE
    /\ IsExpireIntervalType = FALSE
    /\ ExpireTime = 0
    /\ CacheSize = 0
    /\ UseNegativeCache = FALSE
    /\ now = 0

\* S3fsSignals before Initialize
NoSignals ==
    /\ enableUsr1 = FALSE
    /\ pSemUsr1 = Null
    /\ pThreadUsr1 = Null

\* the parts of the program that a specification leaves aside
RestIdle ==
    /\ NoStatCache
    /\ pages = <<>>
    /\ input = <<>>
    /\ NoSignals

\* one object, constructed on an open file and holding the first identifier
OneOpenHandle ==
    /\ handle = [o \in {"h"} |-> Handle(1, 3, O_RDWR)]
    /\ pseudofd_list = {1}

\* one object, constructed with fd -1: lines 48-51 are skipped
OneClosedHandle ==
    /\ handle = [o \in {"h"} |-> Handle(-1, -1, O_RDONLY)]
    /\ pseudofd_list = {}

\* line 450: the handle is not opened
NotOpened(h) == -1 = h.physical_fd \/ -1 = h.pseudo_fd

\* line 120: dup(physical_fd), a new descriptor of the same file
Dup(fd) == fd + 1

\* OpenUploadFd, lines 105-139; sys_ok is the outcome of dup, lseek and fstat
OpenUploadFd(h, sys_ok) ==
    IF -1 # h.upload_fd THEN [ok |-> TRUE, h |-> h]
    ELSE IF -1 = h.physical_fd THEN [ok |-> FALSE, h |-> h]
    ELSE IF ~sys_ok THEN [ok |-> FALSE, h |-> h]
    ELSE [ok |-> TRUE, h |-> [h EXCEPT !.upload_fd = Dup(h.physical_fd)]]

-----------------------------------------------------------------------------
(* SpecPlan: the whole-file planner on the lists a handle can hold *)

InitPlan ==
    /\ max_mp_size \in MpSizes
    /\ file_size \in 1..MaxFileSize
    /\ use_copy \in BOOLEAN
    /\ untreated \in UntreatedLists(file_size)
    /\ last_untreated = -1
    /\ upload_id = TRUE
    /\ upload_list \in SlabLists(max_mp_size, file_size) \cup AppendedLists(file_size)
    /\ instruct_count = 0
    /\ last_result = 0
    /\ uploaded_sem = 0
    /\ upload_list_lock = NoThread
    /\ call = NoCall
    /\ ThreadsIdle
    /\ OneOpenHandle
    /\ RestIdle

\* the record of a call of ExtractUploadPartsFromAllArea on the list old
PlanRecord(r, old) ==
    [op |-> "ExtractUploadPartsFromAllArea", ret |-> r.ok,
     to_upload |-> r.up, to_copy |-> r.cp, to_download |-> r.dl,
     cancel |-> r.cancel, wait_upload_complete |-> r.wait, old_list |-> old,
     failed |-> r.failed]

\* one call of ExtractUploadPartsFromAllArea (the lock is held throughout)
PlanCallIn(scale) ==
    /\ LET r == ExtractUploadPartsFromAllAreaIn(scale, untreated, upload_list, max_mp_size,
                                                file_size, use_copy)
       IN /\ upload_list' = r.ul
          /\ call' = PlanRecord(r, upload_list)
    /\ UNCHANGED <<upload_id, instruct_count, last_result, uploaded_sem, upload_list_lock>>
    /\ UNCHANGED <<fileVars, thrVars>>
    /\ UNCHANGED <<hdlVars, restVars>>

PlanCall == PlanCallIn(1)

PlanAll == call.op = "none" /\ PlanCall

NextPlan == PlanAll

SpecPlan == InitPlan /\ [][NextPlan]_vars

Planned == call.op = "ExtractUploadPartsFromAllArea"

----
(* SpecUnify: the whole-file planner on part sizes next to the store's     *)
(* limits, with the offsets counted in units of MIN_MULTIPART_SIZE /       *)
(* UnitsPerMin bytes, and untreated areas that begin and end next to the   *)
(* part boundaries.                                                        *)

UnitsPerMin == 2      \* offset units in MIN_MULTIPART_SIZE bytes
MaxGap      == 2      \* the areas begin and end this near to a boundary

\* the store's limits in offset units
MinPartUnits == MIN_MULTIPART_SIZE * UnitsPerMin
MaxCopyUnits == FIVE_GB * UnitsPerMin

\* part sizes just above the minimum, and at and just below the copy limit
UnifyMpSizes == {MinPartUnits + 1, MaxCopyUnits - 1, MaxCopyUnits}

\* the offsets within MaxGap of a part boundary
UnifyOffsets(mp, fsize) ==
    {o \in {k * mp + d : k \in 0..2, d \in (0 - MaxGap)..MaxGap} : 0 <= o /\ o <= fsize}

\* sorted lists of at most two areas that do not touch
UnifyUntreatedLists(mp, fsize) ==
    LET O == UnifyOffsets(mp, fsize) IN
    {<<>>}
      \cup {<<Area(a, b - a)>> : a, b \in O} 
      \cup {<<Area(q[1], q[2] - q[1]), Area(q[3], q[4] - q[3])>> : q \in O \X O \X O \X O}

WellFormed(list) ==
    /\ \A i \in 1..Len(list) : list[i].size > 0
    /\ \A i \in 1..(Len(list) - 1) : list[i].start + list[i].size < list[i + 1].start

InitUnify ==
    /\ max_mp_size \in UnifyMpSizes
    /\ file_size \in {2 * max_mp_size - 1, 2 * max_mp_size, 2 * max_mp_size + 1}
    /\ use_copy \in BOOLEAN
    /\ untreated \in {l \in UnifyUntreatedLists(max_mp_size, file_size) : WellFormed(l)}
    /\ last_untreated = -1
    /\ upload_id = TRUE
    /\ upload_list \in {<<>>, <<FilePart(0, max_mp_size, 1, FALSE)>>}
    /\ instruct_count = 0
    /\ last_result = 0
    /\ uploaded_sem = 0
    /\ upload_list_lock = NoThread
    /\ call = NoCall
    /\ ThreadsIdle
    /\ OneOpenHandle
    /\ RestIdle

UnifyPlan == call.op = "none" /\ PlanCallIn(UnitsPerMin)

NextUnify == UnifyPlan

SpecUnify == InitUnify /\ [][NextUnify]_vars

-----------------------------------------------------------------------------
(* Spec: the dispatching thread F, the workers it starts and a second      *)
(* request thread O, interleaved at the granularity of the critical        *)
(* sections of upload_list_lock.  A critical section is two steps: taking  *)
(* the lock (label X to X_in) and the body with the unlock.                *)

MaxParts == 2         \* parts in the list F dispatches (one worker each)
MaxCalls == 1         \* calls the second thread makes

Threads == {"F", "O"}
Workers == 1..MaxParts

\* the mplist F hands to ParallelMultipartUpload: whole slabs from offset 0
Mplist == [i \in 1..MaxParts |-> MpPart((i - 1) * max_mp_size, max_mp_size, i)]

Dispatched == {w \in Workers : worker[w].pc # "idle"}

InitLocal == [i |-> 1, result |-> 0, need_cancel |-> FALSE, ret_to |-> "done",
              at_call |-> {}, acquired |-> 0, calls |-> 0, ok |-> TRUE]

InitSpec ==
    /\ max_mp_size = 2
    /\ file_size = 2 * MaxParts
    /\ use_copy = FALSE
    /\ untreated = <<>>
    /\ last_untreated = -1
    /\ upload_id = TRUE               \* PreMultipartUploadRequest has succeeded
    /\ upload_list = <<>>
    /\ instruct_count = 0
    /\ last_result = 0
    /\ uploaded_sem = 0
    /\ upload_list_lock = NoThread
    /\ call = NoCall
    /\ pc = [t \in Threads |-> IF t = "F" THEN "pmu_open" ELSE "idle"]
    /\ local = [t \in Threads |-> InitLocal]
    /\ worker = [w \in Workers |-> [pc |-> "idle", result |-> 0]]
    /\ hist = [ops |-> {}]
    /\ OneOpenHandle
    /\ RestIdle

\* std::lock_guard<std::mutex> lock(upload_list_lock): wait for the lock
Acquire(t, from, to) ==
    /\ pc[t] = from
    /\ upload_list_lock = NoThread
    /\ upload_list_lock' = ByThread(t)
    /\ pc' = [pc EXCEPT ![t] = to]
    /\ UNCHANGED <<upload_id, upload_list, instruct_count, last_result, uploaded_sem>>
    /\ UNCHANGED <<fileVars, call, local, worker, hist>>
    /\ UNCHANGED <<hdlVars, restVars>>

\* lines 188-196
ResetUploadInfo ==
    /\ upload_id' = FALSE
    /\ upload_list' = <<>>
    /\ instruct_count' = 0
    /\ last_result' = 0

\* lines 309-312 and 334: std::sort by part number.  std::sort does not
\* say in which order it leaves the parts of equal part number: the value
\* is the set of the orders it may leave, every arrangement of the list in
\* which the part numbers do not decrease (one list when the part numbers
\* are all different)
RECURSIVE SortByPartNum(_)
SortByPartNum(list) ==
    IF Len(list) <= 1 THEN {list}
    ELSE LET least == {i \in 1..Len(list) :
                          \A j \in 1..Len(list) : list[i].part_num <= list[j].part_num}
         IN UNION {{<<list[m]>> \o rest : rest \in SortByPartNum(Erase(list, m))} : m \in least}

\* lines 329-334: the new part is added at the end, then the list is sorted
InsertedList_NoSort(list, start, size, part_num, is_copy) ==
    {Append(list, FilePart(start, size, part_num, is_copy))}

\* lines 320-339: the lists InsertUploadPart may leave
InsertedList(list, start, size, part_num, is_copy) ==
    SortByPartNum(Append(list, FilePart(start, size, part_num, is_copy)))

\* lines 318-325: the checks of InsertUploadPart; has_ppetag is whether the
\* caller passes a place for the etag pointer (ppetag is not null)
InsertAccepts_NoSession(id, start, size, part_num, has_ppetag) ==
    ~(start < 0 \/ size <= 0 \/ part_num < 0 \/ ~has_ppetag)

InsertAccepts(id, start, size, part_num, has_ppetag) ==
    id /\ ~(start < 0 \/ size <= 0 \/ part_num < 0 \/ ~has_ppetag)

----
(* ParallelMultipartUpload, lines 342-382, run by F *)

\* lines 350-352: OpenUploadFd (lines 105-139), a critical section of its
\* own; sys_ok is the outcome of dup, lseek and fstat
PmuOpenUploadFd ==
    \/ Acquire("F", "pmu_open", "pmu_open_in")
    \/ /\ pc["F"] = "pmu_open_in"
       /\ upload_list_lock' = NoThread
       /\ \E sys_ok \in BOOLEAN :
            LET r == OpenUploadFd(handle["h"], sys_ok) IN
            /\ handle' = [handle EXCEPT !["h"] = r.h]
            /\ IF r.ok
               THEN /\ pc' = [pc EXCEPT !["F"] = "pmu_info"]
                    /\ local' = local
               ELSE /\ pc' = [pc EXCEPT !["F"] = "done"]
                    /\ local' = [local EXCEPT !["F"].ok = FALSE]
       /\ UNCHANGED <<upload_id, upload_list, instruct_count, last_result, uploaded_sem>>
       /\ UNCHANGED <<fileVars, call, worker, hist>>
       /\ UNCHANGED <<pseudofd_list, restVars>>

\* lines 357-359: GetUploadInfo (lines 226-237)
PmuGetUploadInfo ==
    \/ Acquire("F", "pmu_info", "pmu_info_in")
    \/ /\ pc["F"] = "pmu_info_in"
       /\ upload_list_lock' = NoThread
       /\ IF upload_id
          THEN /\ pc' = [pc EXCEPT !["F"] = "pmu_insert"]
               /\ local' = local
          ELSE /\ pc' = [pc EXCEPT !["F"] = "done"]
               /\ local' = [local EXCEPT !["F"].ok = FALSE]
       /\ UNCHANGED <<upload_id, upload_list, instruct_count, last_result, uploaded_sem>>
       /\ UNCHANGED <<fileVars, call, worker, hist>>
       /\ UNCHANGED <<hdlVars, restVars>>

\* lines 364-369: InsertUploadPart (lines 314-340) for the entry local.i
PmuInsertUploadPart ==
    \/ Acquire("F", "pmu_insert", "pmu_insert_in")
    \/ /\ pc["F"] = "pmu_insert_in"
       /\ upload_list_lock' = NoThread
       /\ LET e == Mplist[local["F"].i] IN
          IF InsertAccepts(upload_id, e.start, e.size, e.part_num, TRUE)
          THEN /\ upload_list' \in InsertedList(upload_list, e.start, e.size, e.part_num, FALSE)
               /\ pc' = [pc EXCEPT !["F"] = "pmu_request"]
               /\ local' = local
          ELSE /\ upload_list' = upload_list
               /\ pc' = [pc EXCEPT !["F"] = "done"]
               /\ local' = [local EXCEPT !["F"].ok = FALSE]
       /\ UNCHANGED <<upload_id, instruct_count, last_result, uploaded_sem>>
       /\ UNCHANGED <<fileVars, call, worker, hist>>
       /\ UNCHANGED <<hdlVars, restVars>>

\* lines 371-376: multipart_upload_part_request hands the part to the
\* worker pool (the worker starts), or fails
PmuRequest ==
    /\ pc["F"] = "pmu_request"
    /\ \/ /\ worker' = [worker EXCEPT ![local["F"].i].pc = "entry"]
          /\ pc' = [pc EXCEPT !["F"] = "pmu_count"]
          /\ local' = local
       \/ /\ worker' = worker
          /\ pc' = [pc EXCEPT !["F"] = "done"]
          /\ local' = [local EXCEPT !["F"].ok = FALSE]
    /\ UNCHANGED <<sessVars, fileVars, call, hist>>
    /\ UNCHANGED <<hdlVars, restVars>>

\* lines 378-380 and 220-224: IncreaseInstructionCount, then the next entry;
\* after the last one F goes on as ParallelMultipartUploadAll does (399)
PmuIncreaseInstructionCount ==
    \/ Acquire("F", "pmu_count", "pmu_count_in")
    \/ /\ pc["F"] = "pmu_count_in"
       /\ upload_list_lock' = NoThread
       /\ instruct_count' = instruct_count + 1
       /\ IF local["F"].i < MaxParts
          THEN /\ pc' = [pc EXCEPT !["F"] = "pmu_insert"]
               /\ local' = [local EXCEPT !["F"].i = @ + 1]
          ELSE /\ pc' = [pc EXCEPT !["F"] = "wait_enter"]
               /\ local' = [local EXCEPT !["F"].ret_to = "done",
                                         !["F"].at_call = Dispatched,
                                         !["F"].acquired = 0]
       /\ UNCHANGED <<upload_id, upload_list, last_result, uploaded_sem>>
       /\ UNCHANGED <<fileVars, call, worker, hist>>
       /\ UNCHANGED <<hdlVars, restVars>>

----
(* WaitAllThreadsExit, lines 550-576, run by thread t *)

\* a first critical section that is still open when the wait begins
WaitCheck_KeepsLock(t) ==
    /\ pc[t] = "wait_check"
    /\ IF 0 = instruct_count
       THEN /\ local' = [local EXCEPT ![t].result = last_result]
            /\ pc' = [pc EXCEPT ![t] = local[t].ret_to]
            /\ upload_list_lock' = NoThread
       ELSE /\ local' = local
            /\ pc' = [pc EXCEPT ![t] = "wait_acquire"]
            /\ upload_list_lock' = upload_list_lock
    /\ UNCHANGED <<upload_id, upload_list, instruct_count, last_result, uploaded_sem>>
    /\ UNCHANGED <<fileVars, call, worker, hist>>
    /\ UNCHANGED <<hdlVars, restVars>>

\* lines 554-560
WaitCheck(t) ==
    /\ pc[t] = "wait_check"
    /\ upload_list_lock' = NoThread
    /\ IF 0 = instruct_count
       THEN /\ local' = [local EXCEPT ![t].result = last_result]
            /\ pc' = [pc EXCEPT ![t] = local[t].ret_to]
       ELSE /\ local' = local
            /\ pc' = [pc EXCEPT ![t] = "wait_acquire"]
    /\ UNCHANGED <<upload_id, upload_list, instruct_count, last_result, uploaded_sem>>
    /\ UNCHANGED <<fileVars, call, worker, hist>>
    /\ UNCHANGED <<hdlVars, restVars>>

\* line 564: uploaded_sem.acquire()
WaitAcquire(t) ==
    /\ pc[t] = "wait_acquire"
    /\ uploaded_sem > 0
    /\ uploaded_sem' = uploaded_sem - 1
    /\ pc' = [pc EXCEPT ![t] = "wait_lock"]
    /\ local' = [local EXCEPT ![t].acquired = @ + 1]
    /\ UNCHANGED <<upload_id, upload_list, instruct_count, last_result, upload_list_lock>>
    /\ UNCHANGED <<fileVars, call, worker, hist>>
    /\ UNCHANGED <<hdlVars, restVars>>

\* a join that stops looping while one instruction is still counted
WaitDecrement_OffByOne(t) ==
    /\ pc[t] = "wait_dec"
    /\ upload_list_lock' = NoThread
    /\ instruct_count' = instruct_count - 1
    /\ IF instruct_count - 1 <= 1
       THEN /\ local' = [local EXCEPT ![t].result = last_result]
            /\ pc' = [pc EXCEPT ![t] = local[t].ret_to]
       ELSE /\ local' = local
            /\ pc' = [pc EXCEPT ![t] = "wait_acquire"]
    /\ UNCHANGED <<upload_id, upload_list, last_result, uploaded_sem>>
    /\ UNCHANGED <<fileVars, call, worker, hist>>
    /\ UNCHANGED <<hdlVars, restVars>>

\* a join that hands out last_result and clears it
WaitDecrement_ClearsResult(t) ==
    /\ pc[t] = "wait_dec"
    /\ upload_list_lock' = NoThread
    /\ instruct_count' = instruct_count - 1
    /\ IF 0 = instruct_count - 1
       THEN /\ local' = [local EXCEPT ![t].result = last_result]
            /\ pc' = [pc EXCEPT ![t] = local[t].ret_to]
            /\ last_result' = 0
       ELSE /\ local' = local
            /\ pc' = [pc EXCEPT ![t] = "wait_acquire"]
            /\ last_result' = last_result
    /\ UNCHANGED <<upload_id, upload_list, uploaded_sem>>
    /\ UNCHANGED <<fileVars, call, worker, hist>>
    /\ UNCHANGED <<hdlVars, restVars>>

\* lines 565-572
WaitDecrement(t) ==
    /\ pc[t] = "wait_dec"
    /\ upload_list_lock' = NoThread
    /\ instruct_count' = instruct_count - 1
    /\ IF 0 = instruct_count - 1
       THEN /\ local' = [local EXCEPT ![t].result = last_result]
            /\ pc' = [pc EXCEPT ![t] = local[t].ret_to]
       ELSE /\ local' = local
            /\ pc' = [pc EXCEPT ![t] = "wait_acquire"]
    /\ UNCHANGED <<upload_id, upload_list, last_result, uploaded_sem>>
    /\ UNCHANGED <<fileVars, call, worker, hist>>
    /\ UNCHANGED <<hdlVars, restVars>>

WaitAllThreadsExit(t) ==
    \/ Acquire(t, "wait_enter", "wait_check")
    \/ WaitCheck(t)
    \/ WaitAcquire(t)
    \/ Acquire(t, "wait_lock", "wait_dec")
    \/ WaitDecrement(t)

----
(* CancelAllThreads, lines 578-593, run by thread t *)

\* a cancel that marks the session canceled whatever instruct_count is
CancelCheck_Always(t) ==
    /\ pc[t] = "cancel_check"
    /\ upload_list_lock' = NoThread
    /\ last_result' = -ECANCELED
    /\ IF 0 < instruct_count
       THEN /\ local' = [local EXCEPT ![t].need_cancel = TRUE,
                                      ![t].ret_to = "cancel_ret",
                                      ![t].at_call = Dispatched,
                                      ![t].acquired = 0]
            /\ pc' = [pc EXCEPT ![t] = "wait_enter"]
       ELSE /\ local' = [local EXCEPT ![t].need_cancel = FALSE]
            /\ pc' = [pc EXCEPT ![t] = "cancel_ret"]
    /\ UNCHANGED <<upload_id, upload_list, instruct_count, uploaded_sem>>
    /\ UNCHANGED <<fileVars, call, worker, hist>>
    /\ UNCHANGED <<hdlVars, restVars>>

\* lines 581-592
CancelCheck(t) ==
    /\ pc[t] = "cancel_check"
    /\ upload_list_lock' = NoThread
    /\ IF 0 < instruct_count
       THEN /\ last_result' = -ECANCELED
            /\ local' = [local EXCEPT ![t].need_cancel = TRUE,
                                      ![t].ret_to = "cancel_ret",
                                      ![t].at_call = Dispatched,
                                      ![t].acquired = 0]
            /\ pc' = [pc EXCEPT ![t] = "wait_enter"]
       ELSE /\ last_result' = last_result
            /\ local' = [local EXCEPT ![t].need_cancel = FALSE]
            /\ pc' = [pc EXCEPT ![t] = "cancel_ret"]
    /\ UNCHANGED <<upload_id, upload_list, instruct_count, uploaded_sem>>
    /\ UNCHANGED <<fileVars, call, worker, hist>>
    /\ UNCHANGED <<hdlVars, restVars>>

CancelAllThreads(t) ==
    \/ Acquire(t, "cancel_enter", "cancel_check")
    \/ CancelCheck(t)

----
(* ClearUploadInfo, lines 174-186, run by thread t *)

\* lines 184-185, after CancelAllThreads has returned or been skipped
ClearReset(t) ==
    /\ pc[t] = "clear_in"
    /\ upload_list_lock' = NoThread
    /\ ResetUploadInfo
    /\ pc' = [pc EXCEPT ![t] = "idle"]
    /\ UNCHANGED <<uploaded_sem, fileVars, call, local, worker, hist>>
    /\ UNCHANGED <<hdlVars, restVars>>

ClearUploadInfo(t) ==
    \/ Acquire(t, "cancel_ret", "clear_in")     \* is_cancel_mp, CancelAllThreads done
    \/ Acquire(t, "clear_lock", "clear_in")     \* not is_cancel_mp
    \/ ClearReset(t)

----
(* The calls of the second thread *)

BeginCall(t, op, to) ==
    /\ pc[t] = "idle"
    /\ local[t].calls < MaxCalls
    /\ pc' = [pc EXCEPT ![t] = to]
    /\ local' = [local EXCEPT ![t].calls = @ + 1,
                              ![t].ret_to = "idle",
                              ![t].need_cancel = FALSE,
                              ![t].at_call = Dispatched,
                              ![t].acquired = 0]
    /\ hist' = [hist EXCEPT !.ops = @ \cup {op}]
    /\ UNCHANGED <<sessVars, fileVars, call, worker>>
    /\ UNCHANGED <<hdlVars, restVars>>

CallWaitAllThreadsExit == BeginCall("O", "WaitAllThreadsExit", "wait_enter")
CallClearUploadInfoCancel == BeginCall("O", "ClearUploadInfo(true)", "cancel_enter")
CallClearUploadInfo == BeginCall("O", "ClearUploadInfo(false)", "clear_lock")

----
(* A worker: the task multipart_upload_part_request (line 373) starts with *)
(* &uploaded_sem, &upload_list_lock and &last_result                       *)

WorkerAcquire(w, from, to) ==
    /\ worker[w].pc = from
    /\ upload_list_lock = NoThread
    /\ upload_list_lock' = ByWorker(w)
    /\ worker' = [worker EXCEPT ![w].pc = to]
    /\ UNCHANGED <<upload_id, upload_list, instruct_count, last_result, uploaded_sem>>
    /\ UNCHANGED <<fileVars, call, pc, local, hist>>
    /\ UNCHANGED <<hdlVars, restVars>>

\* at its entry the worker reads last_result under the lock: when an error
\* is already recorded it does nothing more; otherwise it sends the part,
\* and the request succeeds (the etag is filled) or fails with EIO
WorkerEntry(w) ==
    /\ worker[w].pc = "entry_in"
    /\ upload_list_lock' = NoThread
    /\ IF last_result # 0
       THEN worker' = [worker EXCEPT ![w] = [pc |-> "release", result |-> last_result]]
       ELSE \/ worker' = [worker EXCEPT ![w] = [pc |-> "release", result |-> 0]]
            \/ worker' = [worker EXCEPT ![w] = [pc |-> "record", result |-> -EIO]]
    /\ UNCHANGED <<upload_id, upload_list, instruct_count, last_result, uploaded_sem>>
    /\ UNCHANGED <<fileVars, call, pc, local, hist>>
    /\ UNCHANGED <<hdlVars, restVars>>

\* on failure the worker records its errno into last_result under the lock,
\* unless an errno is recorded already: the first one is kept
WorkerRecord(w) ==
    /\ worker[w].pc = "record_in"
    /\ upload_list_lock' = NoThread
    /\ last_result' = IF 0 = last_result THEN worker[w].result ELSE last_result
    /\ worker' = [worker EXCEPT ![w].pc = "release"]
    /\ UNCHANGED <<upload_id, upload_list, instruct_count, uploaded_sem>>
    /\ UNCHANGED <<fileVars, call, pc, local, hist>>
    /\ UNCHANGED <<hdlVars, restVars>>

\* on completion the semaphore is released
WorkerRelease(w) ==
    /\ worker[w].pc = "release"
    /\ uploaded_sem' = uploaded_sem + 1
    /\ worker' = [worker EXCEPT ![w].pc = "done"]
    /\ UNCHANGED <<upload_id, upload_list, instruct_count, last_result, upload_list_lock>>
    /\ UNCHANGED <<fileVars, call, pc, local, hist>>
    /\ UNCHANGED <<hdlVars, restVars>>

Worker(w) ==
    \/ WorkerAcquire(w, "entry", "entry_in")
    \/ WorkerEntry(w)
    \/ WorkerAcquire(w, "record", "record_in")
    \/ WorkerRecord(w)
    \/ WorkerRelease(w)

----
Next ==
    \/ PmuOpenUploadFd
    \/ PmuGetUploadInfo
    \/ PmuInsertUploadPart
    \/ PmuRequest
    \/ PmuIncreaseInstructionCount
    \/ CallWaitAllThreadsExit
    \/ CallClearUploadInfoCancel
    \/ CallClearUploadInfo
    \/ \E t \in Threads : WaitAllThreadsExit(t)
    \/ \E t \in Threads : CancelAllThreads(t)
    \/ \E t \in Threads : ClearUploadInfo(t)
    \/ \E w \in Workers : Worker(w)

Spec == InitSpec /\ [][Next]_vars

-----------------------------------------------------------------------------
(* SpecFlush: one handle in streaming mode.  The request thread writes,    *)
(* calls UploadBoundaryLastUntreatedArea, and flushes the whole file.  The *)
(* calls of one request thread are sequential, so each is one step; the    *)
(* workers it has dispatched have all released the semaphore when a join   *)
(* returns (their interleaving with the join is what Spec is about).       *)

MaxWriteEnd == 4      \* writes end at or before this offset
MaxInstruct == 2      \* cap of instruct_count between two joins

MinOf(S) == CHOOSE x \in S : \A y \in S : x <= y
MaxOf(S) == CHOOSE x \in S : \A y \in S : y <= x

----
(* UntreatedParts of the entity *)

\* whether the area a and (start, size) overlap or touch
Stretches(a, start, size) == ~((start + size) < a.start \/ (a.start + a.size) < start)

\* AddPart: the new area absorbs every area it overlaps or touches and
\* takes the last tag; the result holds the list and the start of that area
AddPart(list, start, size) ==
    LET hit == {i \in 1..Len(list) : Stretches(list[i], start, size)}
        lo  == MinOf({start} \cup {list[i].start : i \in hit})
        hi  == MaxOf({start + size} \cup {list[i].start + list[i].size : i \in hit})
    IN [list |-> SelectSeq(list, LAMBDA a : a.start + a.size < lo)
                 \o <<Area(lo, hi - lo)>>
                 \o SelectSeq(list, LAMBDA a : hi < a.start),
        last |-> lo]

\* the area that holds the last tag, as a set of at most one index
LastUpdated(list, last) == {i \in 1..Len(list) : list[i].start = last}

\* ReplaceLastUpdateUntreatedPart(front_start, front_size, behind_start,
\* behind_size): the last updated area becomes the front remainder (or is
\* removed when that is empty), then the behind remainder is added
ReplaceLastUpdateUntreatedPart(list, last, fs, fz, bs, bz) ==
    LET hit == LastUpdated(list, last) IN
    IF hit = {} THEN [ok |-> FALSE, list |-> list, last |-> last]
    ELSE LET i == CHOOSE j \in hit : TRUE
             l1 == IF 0 < fz THEN [list EXCEPT ![i] = Area(fs, fz)] ELSE Erase(list, i)
             t1 == IF 0 < fz THEN fs ELSE -1
         IN IF 0 < bz
            THEN LET r == AddPart(l1, bs, bz) IN [ok |-> TRUE, list |-> r.list, last |-> r.last]
            ELSE [ok |-> TRUE, list |-> l1, last |-> t1]

----
(* ExtractUploadPartsFromUntreatedArea, lines 614-688 *)

\* the same walk, leaving the overlapping parts in the list
RECURSIVE CancelOverlapped_KeepsPart(_, _, _, _, _)
CancelOverlapped_KeepsPart(ul, i, aligned_start, aligned_size, cancel) ==
    IF i > Len(ul) THEN [ul |-> ul, aligned_size |-> aligned_size, cancel |-> cancel]
    ELSE LET p == ul[i] IN
      IF (p.startpos + p.size - 1) < aligned_start \/ (aligned_start + aligned_size - 1) < p.startpos
      THEN CancelOverlapped_KeepsPart(ul, i + 1, aligned_start, aligned_size, cancel)
      ELSE CancelOverlapped_KeepsPart(ul, i + 1, aligned_start, aligned_size, Append(cancel, p))

\* lines 650-673: cancel the parts that overlap the aligned area, which
\* grows to the end of a part that reaches beyond it
RECURSIVE CancelOverlapped(_, _, _, _, _)
CancelOverlapped(ul, i, aligned_start, aligned_size, cancel) ==
    IF i > Len(ul) THEN [ul |-> ul, aligned_size |-> aligned_size, cancel |-> cancel]
    ELSE LET p == ul[i] IN
      IF (p.startpos + p.size - 1) < aligned_start \/ (aligned_start + aligned_size - 1) < p.startpos
      THEN CancelOverlapped(ul, i + 1, aligned_start, aligned_size, cancel)
      ELSE LET grown == IF (aligned_start + aligned_size - 1) < (p.startpos + p.size - 1)
                        THEN aligned_size + ((p.startpos + p.size) - (aligned_start + aligned_size))
                        ELSE aligned_size
           IN CancelOverlapped(Erase(ul, i), i, aligned_start, grown, Append(cancel, p))

\* line 681: the part emitted for the slab at aligned_start
UntreatedSlabPart_WholeArea(aligned_start, aligned_size, mp) ==
    MpPart(aligned_start, aligned_size, (aligned_start \div mp) + 1)

UntreatedSlabPart(aligned_start, aligned_size, mp) ==
    MpPart(aligned_start, mp, (aligned_start \div mp) + 1)

\* lines 679-685: one part of max_mp_size per whole slab of the area
RECURSIVE UntreatedSlabParts(_, _, _)
UntreatedSlabParts(aligned_start, aligned_size, mp) ==
    IF mp <= aligned_size
    THEN <<UntreatedSlabPart(aligned_start, aligned_size, mp)>>
         \o UntreatedSlabParts(aligned_start + mp, aligned_size - mp, mp)
    ELSE <<>>

ExtractUploadPartsFromUntreatedArea(ul, untreated_start, untreated_size, mp) ==
    IF untreated_start < 0 \/ untreated_size <= 0
    THEN [ok |-> FALSE, ul |-> ul, to_upload |-> <<>>, cancel |-> <<>>]
    ELSE LET aligned_start == (untreated_start \div mp) * mp
             aligned_size  == untreated_size + (untreated_start - aligned_start)
         IN IF aligned_size < mp
            THEN [ok |-> TRUE, ul |-> ul, to_upload |-> <<>>, cancel |-> <<>>]
            ELSE LET c == CancelOverlapped(ul, 1, aligned_start, aligned_size, <<>>)
                 IN [ok |-> TRUE, ul |-> c.ul,
                     to_upload |-> UntreatedSlabParts(aligned_start, c.aligned_size, mp),
                     cancel |-> c.cancel]

----
(* UploadBoundaryLastUntreatedArea, lines 446-548, on an open handle *)

\* line 472: the start of the last updated area, moved up to the boundary
AlignedStart(start, mp) == ((start \div mp) + (IF 0 < (start % mp) THEN 1 ELSE 0)) * mp

\* line 478: the whole slabs between the aligned start and the end
AlignedSize_RoundedUp(start, size, aligned_start, mp) ==
    ((((start + size) - aligned_start) + (mp - 1)) \div mp) * mp

AlignedSize(start, size, aligned_start, mp) == (((start + size) - aligned_start) \div mp) * mp

\* line 540: where the remainder behind the uploaded slabs starts
BehindRemStart_AtAlignedStart(aligned_start, aligned_size) == aligned_start

BehindRemStart(aligned_start, aligned_size) == aligned_start + aligned_size

----
(* The calls of a request thread, one step for each critical section of    *)
(* upload_list_lock, each access to the untreated list of the entity and   *)
(* each request to the store or to the worker pool: between two steps the  *)
(* thread holds no lock.  While thread t is in a call, pc[t] is the step   *)
(* it takes next and local[t] holds the locals of the call; call is the    *)
(* call that returned at the last step of a request thread (the outermost  *)
(* one, when that step ended several); hist.ops are the calls that have    *)
(* added to the list since the list was reset.                             *)

RaceThreads == {"A", "B"}

\* where a thread is when it is not in a call
Home(t) == IF t \in RaceThreads THEN "done" ELSE "idle"

\* the session and the untreated list as a call finds them (kept for the
\* calls whose record carries it)
Entry ==
    [id |-> upload_id, ul |-> upload_list, count |-> instruct_count,
     unt |-> untreated, last |-> last_untreated]

NoEntry == [id |-> FALSE, ul |-> <<>>, count |-> 0, unt |-> <<>>, last |-> -1]

\* the locals of a thread that is not in a call
ReqLocal ==
    [op |-> "none", entry |-> NoEntry, path |-> TRUE, pfdent |-> TRUE,
     run |-> Area(0, 0), aligned_start |-> 0, aligned_size |-> 0,
     to_upload |-> <<>>, to_copy |-> <<>>, cancel |-> <<>>,
     mplist |-> <<>>, is_copy |-> FALSE, i |-> 1,
     initiate |-> FALSE, dispatched |-> 0, ret_to |-> "none",
     obj |-> "none", fd |-> -1, open_flags |-> O_RDONLY]

\* the successful calls on the list since it was reset
Called(op) == [hist EXCEPT !.ops = @ \cup {op}]

\* what the calls return, with what the claims need of their run
BoundaryRecord(l, ret) ==
    [op |-> "UploadBoundaryLastUntreatedArea", ret |-> ret,
     path |-> l.path, pfdent |-> l.pfdent, entry |-> l.entry,
     to_upload |-> l.to_upload, cancel |-> l.cancel, initiate |-> l.initiate,
     dispatched |-> l.dispatched]

PmuRecord(l, ok) ==
    [op |-> "ParallelMultipartUpload", ret |-> ok, mplist |-> l.mplist,
     entry |-> l.entry, dispatched |-> l.dispatched]

AllRecord(l, ok, result) ==
    [op |-> "ParallelMultipartUploadAll", ret |-> ok, result |-> result,
     to_upload |-> l.to_upload, to_copy |-> l.to_copy, cancel |-> l.cancel,
     dispatched |-> l.dispatched]

PreRecord(result) == [op |-> "PreMultipartUploadRequest", ret |-> result]

\* the step has ended no call
NoReturn == [op |-> "no return"]

\* the thread returns from its call, or goes on at a step of it
Ret(t, rec) == [pc |-> Home(t), l |-> ReqLocal, call |-> rec]

On(label, l, rec) == [pc |-> label, l |-> l, call |-> rec]

Resume(t, x) ==
    /\ pc' = [pc EXCEPT ![t] = x.pc]
    /\ local' = [local EXCEPT ![t] = x.l]
    /\ call' = x.call

\* ParallelMultipartUploadAll, line 393: the list it hands to
\* ParallelMultipartUpload after k of its two calls (an empty list returns
\* true at line 346), then the wait of line 399
AllNext(l, k) ==
    IF k = 0 /\ l.to_upload # <<>>
    THEN [pc |-> "open_fd", l |-> [l EXCEPT !.mplist = l.to_upload, !.is_copy = FALSE, !.i = 1]]
    ELSE IF k <= 1 /\ l.to_copy # <<>>
    THEN [pc |-> "open_fd", l |-> [l EXCEPT !.mplist = l.to_copy, !.is_copy = TRUE, !.i = 1]]
    ELSE [pc |-> "wait_check", l |-> [l EXCEPT !.ret_to = "join"]]

\* PreMultipartUploadRequest returns result to its caller: lines 513-515
\* of UploadBoundaryLastUntreatedArea, or the whole-file flush, which gives
\* the session up when the request has failed
AfterPre(t, l, result) ==
    IF l.op = "PreMultipartUploadRequest" THEN Ret(t, PreRecord(result))
    ELSE IF l.op = "UploadBoundaryLastUntreatedArea"
    THEN IF 0 # result THEN Ret(t, BoundaryRecord(l, result))
         ELSE On("open_fd", l, PreRecord(0))
    ELSE IF 0 # result THEN On("cancel", l, PreRecord(result))
         ELSE On("all_open", l, PreRecord(0))

\* ParallelMultipartUpload returns ok to its caller: lines 532-535 of
\* UploadBoundaryLastUntreatedArea, or lines 393-399 of
\* ParallelMultipartUploadAll, whose caller gives the session up when it
\* returns false; rec is the call that ended last inside it
AfterPmu(t, l, ok, rec) ==
    IF l.op = "ParallelMultipartUpload" THEN Ret(t, PmuRecord(l, ok))
    ELSE IF l.op = "UploadBoundaryLastUntreatedArea"
    THEN IF ok THEN On("replace", l, rec) ELSE Ret(t, BoundaryRecord(l, -EIO))
    ELSE IF ~ok THEN On("cancel", l, AllRecord(l, FALSE, 0))
         ELSE LET n == AllNext(l, IF l.is_copy THEN 2 ELSE 1) IN On(n.pc, n.l, rec)

\* WaitAllThreadsExit returns result: to ParallelMultipartUploadAll (line
\* 399), which returns true with it, the caller completing the session
\* after 0 and giving it up otherwise; or to CancelAllThreads (line 590),
\* which returns to ClearUploadInfo (line 178) or to Clear (line 63)
AfterWait(t, l, result) ==
    IF l.ret_to = "join"
    THEN On(IF 0 = result THEN "complete" ELSE "cancel", l, AllRecord(l, TRUE, result))
    ELSE On(IF l.ret_to = "clear" THEN "clear_info" ELSE "clear_reset", l,
            [op |-> "CancelAllThreads", ret |-> TRUE])

\* the parts the boundary flush of the area would insert stay within cap
\* instructions counted and maxlen parts in the list
WithinCap(aligned_start, aligned_size, cap, maxlen) ==
    LET x == ExtractUploadPartsFromUntreatedArea(upload_list, aligned_start, aligned_size, max_mp_size)
    IN /\ (IF upload_id THEN instruct_count ELSE 0) + Len(x.to_upload) <= cap
       /\ (IF upload_id THEN Len(x.ul) ELSE 0) + Len(x.to_upload) <= maxlen

\* UploadBoundaryLastUntreatedArea, lines 450-482: the arguments (a null
\* path or entity, a handle that is not opened), the last updated area of
\* the entity and its alignment
ReqGetLastUpdate(t, cap, maxlen) ==
    /\ pc[t] = "idle"
    /\ \E path_ok \in BOOLEAN, pfdent_ok \in BOOLEAN :
         LET l == [ReqLocal EXCEPT !.op = "UploadBoundaryLastUntreatedArea", !.entry = Entry,
                                   !.path = path_ok, !.pfdent = pfdent_ok]
             hit == LastUpdated(untreated, last_untreated)
         IN IF ~path_ok \/ NotOpened(handle["h"]) \/ ~pfdent_ok
            THEN Resume(t, Ret(t, BoundaryRecord(l, -EBADF)))
            ELSE IF hit = {} THEN Resume(t, Ret(t, BoundaryRecord(l, 0)))
            ELSE LET a == untreated[CHOOSE i \in hit : TRUE]
                     aligned_start == AlignedStart(a.start, max_mp_size)
                 IN IF a.start < 0 \/ a.size <= 0 THEN Resume(t, Ret(t, BoundaryRecord(l, 0)))
                    ELSE IF (a.start + a.size) <= aligned_start
                    THEN Resume(t, Ret(t, BoundaryRecord(l, 0)))
                    ELSE LET aligned_size == AlignedSize(a.start, a.size, aligned_start, max_mp_size) IN
                         IF 0 = aligned_size THEN Resume(t, Ret(t, BoundaryRecord(l, 0)))
                         ELSE /\ WithinCap(aligned_start, aligned_size, cap, maxlen)
                              /\ Resume(t, On("extract",
                                              [l EXCEPT !.run = a, !.aligned_start = aligned_start,
                                                        !.aligned_size = aligned_size],
                                              [op |-> "GetLastUpdateUntreatedPart", ret |-> TRUE]))
    /\ UNCHANGED <<sessVars, fileVars, worker, hist, hdlVars, restVars>>

\* lines 496-505: ExtractUploadPartsFromUntreatedArea, under the lock
\* (line 648)
ReqExtract(t) ==
    /\ pc[t] = "extract"
    /\ LET x == ExtractUploadPartsFromUntreatedArea(upload_list, local[t].aligned_start,
                                                    local[t].aligned_size, max_mp_size)
           l == [local[t] EXCEPT !.to_upload = x.to_upload, !.cancel = x.cancel,
                                 !.mplist = x.to_upload]
       IN /\ upload_list' = x.ul
          /\ Resume(t, IF ~x.ok THEN Ret(t, BoundaryRecord(l, -EIO))
                       ELSE IF x.to_upload = <<>> THEN Ret(t, BoundaryRecord(l, 0))
                       ELSE On("is_uploading", l,
                               [op |-> "ExtractUploadPartsFromUntreatedArea", ret |-> TRUE]))
    /\ UNCHANGED <<upload_id, instruct_count, last_result, uploaded_sem, upload_list_lock,
                   fileVars, worker, hist, hdlVars, restVars>>

\* the whole-file flush of a file that is larger than a part or has a
\* session: ExtractUploadPartsFromAllArea, under the lock (line 708); the
\* caller gives the session up when it returns false
ReqExtractAll(t) ==
    /\ pc[t] = "idle"
    /\ 0 < file_size
    /\ upload_id \/ max_mp_size < file_size
    /\ LET r == ExtractUploadPartsFromAllArea(untreated, upload_list, max_mp_size, file_size, use_copy)
           l == [ReqLocal EXCEPT !.op = "ParallelMultipartUploadAll",
                                 !.to_upload = r.up, !.to_copy = r.cp, !.cancel = r.cancel]
       IN /\ upload_list' = r.ul
          /\ Resume(t, On(IF r.ok THEN "is_uploading" ELSE "cancel", l, PlanRecord(r, upload_list)))
    /\ UNCHANGED <<upload_id, instruct_count, last_result, uploaded_sem, upload_list_lock,
                   fileVars, worker, hist, hdlVars, restVars>>

\* IsUploading, lines 90-94 (line 510 of the boundary flush)
ReqIsUploading(t) ==
    /\ pc[t] = "is_uploading"
    /\ Resume(t, On(IF ~upload_id THEN "pre_request"
                    ELSE IF local[t].op = "UploadBoundaryLastUntreatedArea" THEN "open_fd"
                    ELSE "all_open",
                    local[t], [op |-> "IsUploading", ret |-> upload_id]))
    /\ UNCHANGED <<sessVars, fileVars, worker, hist, hdlVars, restVars>>

\* line 415: pre_multipart_upload_request, the initiate request to the
\* store, made with no lock held; a result that is not 0 is returned as it
\* is (lines 416-417)
PreRequest(t, l) ==
    /\ \E result \in PreResults :
         Resume(t, IF 0 = result
                   THEN On("reset", [l EXCEPT !.initiate = TRUE],
                           [op |-> "pre_multipart_upload_request", ret |-> 0])
                   ELSE AfterPre(t, [l EXCEPT !.initiate = TRUE], result))
    /\ UNCHANGED <<sessVars, fileVars, worker, hist, hdlVars, restVars>>

ReqPreRequest(t) == pc[t] = "pre_request" /\ PreRequest(t, local[t])

\* PreMultipartUploadRequest, lines 410-427, called on the handle
ReqPreMultipartUploadRequest(t) ==
    /\ pc[t] = "idle"
    /\ PreRequest(t, [ReqLocal EXCEPT !.op = "PreMultipartUploadRequest"])

\* RowInitialUploadInfo, lines 207-213: the session is reset under the lock
ReqReset(t) ==
    /\ pc[t] = "reset"
    /\ ResetUploadInfo
    /\ hist' = [hist EXCEPT !.ops = {}]
    /\ Resume(t, On("set_id", local[t], [op |-> "ResetUploadInfo", ret |-> TRUE]))
    /\ UNCHANGED <<uploaded_sem, upload_list_lock, fileVars, worker, hdlVars, restVars>>

\* lines 215-217: the new upload id is stored under the lock, taken again
ReqSetId(t) ==
    /\ pc[t] = "set_id"
    /\ upload_id' = TRUE
    /\ Resume(t, AfterPre(t, local[t], 0))
    /\ UNCHANGED <<upload_list, instruct_count, last_result, uploaded_sem, upload_list_lock,
                   fileVars, worker, hist, hdlVars, restVars>>

\* ParallelMultipartUploadAll, lines 388-392: OpenUploadFd, under the lock
ReqAllOpenUploadFd(t) ==
    /\ pc[t] = "all_open"
    /\ \E sys_ok \in BOOLEAN :
         LET r == OpenUploadFd(handle["h"], sys_ok)
             n == AllNext(local[t], 0)
         IN /\ handle' = [handle EXCEPT !["h"] = r.h]
            /\ Resume(t, IF r.ok THEN On(n.pc, n.l, [op |-> "OpenUploadFd", ret |-> TRUE])
                         ELSE On("cancel", local[t], AllRecord(local[t], FALSE, 0)))
    /\ UNCHANGED <<sessVars, fileVars, worker, hist, pseudofd_list, restVars>>

\* ParallelMultipartUpload, lines 350-352: OpenUploadFd (lines 105-139),
\* under the lock
PmuOpen(t, l) ==
    /\ \E sys_ok \in BOOLEAN :
         LET r == OpenUploadFd(handle["h"], sys_ok)
             rec == [op |-> "OpenUploadFd", ret |-> r.ok]
         IN /\ handle' = [handle EXCEPT !["h"] = r.h]
            /\ Resume(t, IF r.ok THEN On("get_info", l, rec) ELSE AfterPmu(t, l, FALSE, rec))
    /\ UNCHANGED <<sessVars, fileVars, worker, hist, pseudofd_list, restVars>>

ReqOpenUploadFd(t) == pc[t] = "open_fd" /\ PmuOpen(t, local[t])

\* ParallelMultipartUpload, lines 342-352, called on the handle with one
\* of the lists plans and is_copy one of copies, while the list stays
\* within maxlen parts: an empty list returns true at once
ReqParallelMultipartUpload(t, plans, copies, maxlen) ==
    /\ pc[t] = "idle"
    /\ \E mplist \in plans, is_copy \in copies :
         LET l == [ReqLocal EXCEPT !.op = "ParallelMultipartUpload", !.entry = Entry,
                                   !.mplist = mplist, !.is_copy = is_copy]
         IN /\ Len(upload_list) + Len(mplist) <= maxlen
            /\ IF mplist = <<>>
               THEN /\ Resume(t, Ret(t, PmuRecord(l, TRUE)))
                    /\ UNCHANGED <<sessVars, fileVars, worker, hist, hdlVars, restVars>>
               ELSE PmuOpen(t, l)

\* lines 354-359: GetUploadInfo (lines 226-237), under the lock
ReqGetUploadInfo(t) ==
    /\ pc[t] = "get_info"
    /\ LET rec == [op |-> "GetUploadInfo", ret |-> upload_id] IN
       Resume(t, IF upload_id THEN On("insert", local[t], rec)
                 ELSE AfterPmu(t, local[t], FALSE, rec))
    /\ UNCHANGED <<sessVars, fileVars, worker, hist, hdlVars, restVars>>

\* lines 364-369: InsertUploadPart (lines 314-340) of the next part of the
\* list, under the lock
ReqInsert(t) ==
    /\ pc[t] = "insert"
    /\ LET l == local[t]
           e == l.mplist[l.i]
       IN IF InsertAccepts(upload_id, e.start, e.size, e.part_num, TRUE)
          THEN /\ upload_list' \in InsertedList(upload_list, e.start, e.size, e.part_num, l.is_copy)
               /\ hist' = Called("InsertUploadPart")
               /\ Resume(t, On("request", l, [op |-> "InsertUploadPart", ret |-> TRUE]))
          ELSE /\ UNCHANGED <<upload_list, hist>>
               /\ Resume(t, AfterPmu(t, l, FALSE, [op |-> "InsertUploadPart", ret |-> FALSE]))
    /\ UNCHANGED <<upload_id, instruct_count, last_result, uploaded_sem, upload_list_lock,
                   fileVars, worker, hdlVars, restVars>>

\* the workers once the worker of the part e is started, for each way a
\* specification follows them: as their number, as their number for each
\* part number, as the part numbers whose worker runs, or not at all
OneMore(w, e) == w + 1

OneMoreFor(w, e) == [w EXCEPT ![e.part_num] = @ + 1]

RunsFor(w, e) == [w EXCEPT !.running = @ \cup {e.part_num}]

Started(how, w, e) ==
    CASE how = "number" -> OneMore(w, e)
      [] how = "number of part" -> OneMoreFor(w, e)
      [] how = "running parts" -> RunsFor(w, e)
      [] OTHER -> w

\* lines 371-376: multipart_upload_part_request, with no lock held: the
\* worker of the part is started, or the request cannot be set up
ReqRequest(t, how) ==
    /\ pc[t] = "request"
    /\ \E ok \in BOOLEAN :
         LET rec == [op |-> "multipart_upload_part_request", ret |-> IF ok THEN 0 ELSE -EIO] IN
         IF ok THEN /\ worker' = Started(how, worker, local[t].mplist[local[t].i])
                    /\ Resume(t, On("count", local[t], rec))
         ELSE /\ UNCHANGED worker
              /\ Resume(t, AfterPmu(t, local[t], FALSE, rec))
    /\ UNCHANGED <<sessVars, fileVars, hist, hdlVars, restVars>>

\* line 379: IncreaseInstructionCount (lines 220-224), under the lock, then
\* the next part of the list, or the return after the last
ReqCount(t) ==
    /\ pc[t] = "count"
    /\ instruct_count' = instruct_count + 1
    /\ LET l == [local[t] EXCEPT !.dispatched = @ + 1]
           rec == [op |-> "IncreaseInstructionCount"]
       IN Resume(t, IF l.i < Len(l.mplist) THEN On("insert", [l EXCEPT !.i = @ + 1], rec)
                    ELSE AfterPmu(t, l, TRUE, rec))
    /\ UNCHANGED <<upload_id, upload_list, last_result, uploaded_sem, upload_list_lock,
                   fileVars, worker, hist, hdlVars, restVars>>

\* lines 540-547: ReplaceLastUpdateUntreatedPart of the entity, and the
\* return of 0
ReqReplace(t) ==
    /\ pc[t] = "replace"
    /\ LET a == local[t].run
           behind_rem_start == BehindRemStart(local[t].aligned_start, local[t].aligned_size)
           r == ReplaceLastUpdateUntreatedPart(untreated, last_untreated,
                    a.start, local[t].aligned_start - a.start,
                    behind_rem_start, (a.start + a.size) - behind_rem_start)
       IN /\ untreated' = r.list
          /\ last_untreated' = r.last
    /\ Resume(t, Ret(t, BoundaryRecord(local[t], 0)))
    /\ UNCHANGED <<sessVars, max_mp_size, file_size, use_copy, worker, hist, hdlVars, restVars>>

\* WaitAllThreadsExit, lines 555-560: instruct_count is read under the
\* lock, and last_result with it when the count is 0
ReqWaitCheck(t) ==
    /\ pc[t] = "wait_check"
    /\ Resume(t, IF 0 = instruct_count THEN AfterWait(t, local[t], last_result)
                 ELSE On("wait_acquire", local[t], NoReturn))
    /\ UNCHANGED <<sessVars, fileVars, worker, hist, hdlVars, restVars>>

\* line 564: uploaded_sem.acquire(), which blocks while there is no token
ReqWaitAcquire(t) ==
    /\ pc[t] = "wait_acquire"
    /\ 0 < uploaded_sem
    /\ uploaded_sem' = uploaded_sem - 1
    /\ Resume(t, On("wait_dec", local[t], [op |-> "acquire"]))
    /\ UNCHANGED <<upload_id, upload_list, instruct_count, last_result, upload_list_lock,
                   fileVars, worker, hist, hdlVars, restVars>>

\* lines 565-572: the count is decremented under the lock, and last_result
\* read with it when the count has reached 0
ReqWaitDecrement(t) ==
    /\ pc[t] = "wait_dec"
    /\ instruct_count' = instruct_count - 1
    /\ Resume(t, IF 0 = instruct_count - 1 THEN AfterWait(t, local[t], last_result)
                 ELSE On("wait_acquire", local[t], NoReturn))
    /\ UNCHANGED <<upload_id, upload_list, last_result, uploaded_sem, upload_list_lock,
                   fileVars, worker, hist, hdlVars, restVars>>

\* the caller of ParallelMultipartUploadAll after a result of 0: the
\* session is completed at the store, and the file is all treated
ReqComplete(t) ==
    /\ pc[t] = "complete"
    /\ untreated' = <<>>
    /\ last_untreated' = -1
    /\ Resume(t, On("clear_reset", local[t], [op |-> "complete_multipart_upload_request", ret |-> 0]))
    /\ UNCHANGED <<sessVars, max_mp_size, file_size, use_copy, worker, hist, hdlVars, restVars>>

\* ClearUploadInfo(true), lines 176-182: CancelAllThreads, lines 580-588:
\* under the lock, last_result becomes -ECANCELED when instructions are
\* counted, and WaitAllThreadsExit is called then
ReqCancelAllThreads(t) ==
    /\ pc[t] = "cancel"
    /\ IF 0 < instruct_count
       THEN /\ last_result' = -ECANCELED
            /\ Resume(t, On("wait_check", [local[t] EXCEPT !.ret_to = "cancel"], NoReturn))
       ELSE /\ UNCHANGED last_result
            /\ Resume(t, AfterWait(t, [local[t] EXCEPT !.ret_to = "cancel"], last_result))
    /\ UNCHANGED <<upload_id, upload_list, instruct_count, uploaded_sem, upload_list_lock,
                   fileVars, worker, hist, hdlVars, restVars>>

\* ClearUploadInfo, lines 184-185: ResetUploadInfo under the lock
ReqClearReset(t) ==
    /\ pc[t] = "clear_reset"
    /\ ResetUploadInfo
    /\ hist' = [hist EXCEPT !.ops = {}]
    /\ Resume(t, Ret(t, [op |-> "ClearUploadInfo", ret |-> TRUE]))
    /\ UNCHANGED <<uploaded_sem, upload_list_lock, fileVars, worker, hdlVars, restVars>>

\* a worker that was started ends: it records its failure in last_result
\* when none is recorded yet, and it releases the semaphore
ReqWorkerEnds ==
    /\ worker > 0
    /\ worker' = worker - 1
    /\ uploaded_sem' = uploaded_sem + 1
    /\ \E ok \in BOOLEAN :
         last_result' = IF ok \/ 0 # last_result THEN last_result ELSE -EIO
    /\ UNCHANGED <<upload_id, upload_list, instruct_count, upload_list_lock,
                   fileVars, call, pc, local, hist, hdlVars, restVars>>

\* the steps of PreMultipartUploadRequest behind its request, and those of
\* ParallelMultipartUpload behind its first
PreSteps(t) == ReqReset(t) \/ ReqSetId(t)

PmuSteps(t, how) ==
    \/ ReqGetUploadInfo(t)
    \/ ReqInsert(t)
    \/ ReqRequest(t, how)
    \/ ReqCount(t)

\* the steps of UploadBoundaryLastUntreatedArea behind its first
BoundarySteps(t, how) ==
    \/ ReqExtract(t)
    \/ ReqIsUploading(t)
    \/ ReqPreRequest(t)
    \/ PreSteps(t)
    \/ ReqOpenUploadFd(t)
    \/ PmuSteps(t, how)
    \/ ReqReplace(t)

\* the steps of the whole-file flush behind its first, with the end of the
\* session
FlushAllSteps(t) ==
    \/ ReqAllOpenUploadFd(t)
    \/ ReqWaitCheck(t)
    \/ ReqWaitAcquire(t)
    \/ ReqWaitDecrement(t)
    \/ ReqComplete(t)
    \/ ReqCancelAllThreads(t)
    \/ ReqClearReset(t)

----
(* The entity around the handle *)

\* a write of size bytes at start, ending at or before max_end, by the
\* request thread between its calls: the area becomes untreated
WriteWithin(max_end) ==
    /\ pc["F"] = "idle"
    /\ \E start \in 0..(max_end - 1) : \E size \in 1..(max_end - start) :
         LET r == AddPart(untreated, start, size) IN
         /\ untreated' = r.list
         /\ last_untreated' = r.last
         /\ file_size' = IF file_size < start + size THEN start + size ELSE file_size
    /\ call' = [op |-> "Write"]
    /\ UNCHANGED <<sessVars, max_mp_size, use_copy, thrVars>>
    /\ UNCHANGED <<hdlVars, restVars>>

Write == WriteWithin(MaxWriteEnd)

\* the flush of a file no larger than one part, with no session: the file
\* is uploaded in one request
FlushPlain ==
    /\ pc["F"] = "idle"
    /\ ~upload_id /\ 0 < file_size /\ file_size <= max_mp_size
    /\ untreated' = <<>>
    /\ last_untreated' = -1
    /\ call' = [op |-> "FlushPlain"]
    /\ UNCHANGED <<sessVars, max_mp_size, file_size, use_copy, thrVars>>
    /\ UNCHANGED <<hdlVars, restVars>>

----
(* SpecFlush: the request thread F writes, flushes at the part boundaries  *)
(* and flushes the whole file, while the workers it has started end.       *)
(* worker is the number of workers that run.                               *)

UploadBoundaryLastUntreatedArea == ReqGetLastUpdate("F", MaxInstruct, MaxWriteEnd)

InitFlush ==
    /\ max_mp_size = MinOf(MpSizes)
    /\ file_size \in {0, MaxWriteEnd - 1}
    /\ use_copy \in BOOLEAN
    /\ untreated = <<>>
    /\ last_untreated = -1
    /\ SessionIdle
    /\ call = NoCall
    /\ pc = [t \in {"F"} |-> "idle"]
    /\ local = [t \in {"F"} |-> ReqLocal]
    /\ worker = 0
    /\ hist = [ops |-> {}]
    /\ OneOpenHandle
    /\ RestIdle

NextFlush ==
    \/ Write
    \/ FlushPlain
    \/ UploadBoundaryLastUntreatedArea
    \/ ReqExtractAll("F")
    \/ BoundarySteps("F", "number")
    \/ FlushAllSteps("F")
    \/ ReqWorkerEnds

SpecFlush == InitFlush /\ [][NextFlush]_vars

----
(* The calls that end a handle object's use of a file: Clear, Set and the  *)
(* destructor, one step for each critical section of upload_list_lock,     *)
(* each call of the registry and each write of a field; between two steps  *)
(* the thread holds no lock.  local[t] holds the object and the arguments  *)
(* of the call thread t is in.  hist counts the calls of the registry's    *)
(* Get and Release and follows the descriptor that the last dup of         *)
(* OpenUploadFd returned: whether it is open and how often close was       *)
(* called on it.                                                           *)

MaxHandles == 2       \* objects alive at a time
MaxGets    == 3       \* identifiers handed out in one run
MaxDups    == 2       \* duplications in one run
MaxCloses  == 3       \* calls of close on one duplicated descriptor

HandleObjs == 1..MaxHandles
FileFds    == {3, 4}
OpenFlags  == {O_RDONLY, O_WRONLY, O_RDWR}

\* nothing handed out, nothing duplicated
HandleHist ==
    [ops |-> {}, gets |-> 0, releases |-> 0, unknown |-> 0,
     open |-> FALSE, closes |-> 0, dups |-> 0]

\* PseudoFdManager::Get: the smallest identifier that is not in use
GetPseudoFd(list) == MinOf((1..(Cardinality(list) + 1)) \ list)

\* lines 154-163: flags & (O_WRONLY | O_RDWR), on the two low bits
Writable(h) ==
    IF -1 = h.pseudo_fd THEN FALSE
    ELSE IF 0 = (h.flags % 4) THEN FALSE
    ELSE TRUE

\* lines 165-172
Readable(h) == IF -1 = h.pseudo_fd THEN FALSE ELSE TRUE

\* lines 76-78 of Clear: PseudoFdManager::Release(pseudo_fd) when it is set
ReleasedBy(h, list) == IF -1 # h.pseudo_fd THEN list \ {h.pseudo_fd} ELSE list

\* the counts after the Release of Clear on h
ReleaseCounted(h, list, counts) ==
    IF -1 # h.pseudo_fd
    THEN [counts EXCEPT !.releases = @ + 1,
                        !.unknown  = @ + (IF h.pseudo_fd \in list THEN 0 ELSE 1)]
    ELSE counts

\* CloseUploadFd, lines 96-103: close(upload_fd) when the field is set
CloseUploadFd(h, fds) ==
    IF -1 # h.upload_fd THEN [fds EXCEPT !.open = FALSE, !.closes = @ + 1] ELSE fds

\* the close of Clear stays within the bound of the run
CloseWithinBound(h) == -1 # h.upload_fd => hist.closes < MaxCloses

\* a call on a handle object returns: its thread is free for the next call
Returned(rec) == On("idle", ReqLocal, rec)

\* PseudoFdInfo(fd, open_flags), lines 46-52, by thread t: the object is
\* seen by no other thread before the constructor returns
HandleConstruct(t, o) ==
    /\ pc[t] = "idle"
    /\ o \notin DOMAIN handle
    /\ hist.gets < MaxGets
    /\ \E fd \in FileFds \cup {-1}, open_flags \in OpenFlags :
         LET id == GetPseudoFd(pseudofd_list)
             h  == IF -1 # fd THEN Handle(id, fd, open_flags) ELSE Handle(-1, fd, O_RDONLY)
         IN /\ handle' = [x \in DOMAIN handle \cup {o} |-> IF x = o THEN h ELSE handle[x]]
            /\ pseudofd_list' = IF -1 # fd THEN pseudofd_list \cup {id} ELSE pseudofd_list
            /\ hist' = IF -1 # fd THEN [hist EXCEPT !.gets = @ + 1] ELSE hist
            /\ call' = [op |-> "PseudoFdInfo", obj |-> o, ret |-> TRUE]
    /\ UNCHANGED <<sessVars, fileVars, pc, local, worker, restVars>>

\* Clear, line 63: CancelAllThreads, lines 580-588: under the lock,
\* last_result becomes -ECANCELED when instructions are counted, and
\* WaitAllThreadsExit is called then (line 590); l holds the call
ClearCancelAllThreads(t, l) ==
    /\ IF 0 < instruct_count
       THEN /\ last_result' = -ECANCELED
            /\ Resume(t, On("wait_check", [l EXCEPT !.ret_to = "clear"], NoReturn))
       ELSE /\ UNCHANGED last_result
            /\ Resume(t, On("clear_info", l, [op |-> "CancelAllThreads", ret |-> TRUE]))
    /\ UNCHANGED <<upload_id, upload_list, instruct_count, uploaded_sem, upload_list_lock,
                   fileVars, worker, hist, hdlVars, restVars>>

\* Clear, lines 59-83, called on object o by thread t: its first step
HandleClear(t, o) ==
    /\ pc[t] = "idle"
    /\ o \in DOMAIN handle
    /\ CloseWithinBound(handle[o])
    /\ ClearCancelAllThreads(t, [ReqLocal EXCEPT !.op = "Clear", !.obj = o])

\* Set, lines 141-152: false for fd -1 (lines 143-145), else Clear (line
\* 146), of which this is the first step
HandleSet(t, o) ==
    /\ pc[t] = "idle"
    /\ o \in DOMAIN handle
    /\ hist.gets < MaxGets
    /\ CloseWithinBound(handle[o])
    /\ \E fd \in FileFds \cup {-1}, open_flags \in OpenFlags :
         IF -1 = fd
         THEN /\ Resume(t, Returned([op |-> "Set", obj |-> o, ret |-> FALSE]))
              /\ UNCHANGED <<sessVars, fileVars, worker, hist, hdlVars, restVars>>
         ELSE ClearCancelAllThreads(t, [ReqLocal EXCEPT !.op = "Set", !.obj = o, !.fd = fd,
                                                        !.open_flags = open_flags])

\* the destructor, lines 54-57: Clear, of which this is the first step
HandleDestroy(t, o) ==
    /\ pc[t] = "idle"
    /\ o \in DOMAIN handle
    /\ CloseWithinBound(handle[o])
    /\ ClearCancelAllThreads(t, [ReqLocal EXCEPT !.op = "~PseudoFdInfo", !.obj = o])

\* Clear, lines 66-73: ResetUploadInfo under the lock
ClearResetUploadInfo(t) ==
    /\ pc[t] = "clear_info"
    /\ ResetUploadInfo
    /\ hist' = [hist EXCEPT !.ops = {}]
    /\ Resume(t, On("close_fd", local[t], [op |-> "ResetUploadInfo", ret |-> TRUE]))
    /\ UNCHANGED <<uploaded_sem, upload_list_lock, fileVars, worker, hdlVars, restVars>>

\* Clear, line 74: CloseUploadFd, lines 96-103, under the lock: upload_fd
\* is closed when it is set, and the field is left as it is
ClearCloseUploadFd(t) ==
    /\ pc[t] = "close_fd"
    /\ hist' = CloseUploadFd(handle[local[t].obj], hist)
    /\ Resume(t, On("release", local[t], [op |-> "CloseUploadFd"]))
    /\ UNCHANGED <<sessVars, fileVars, worker, hdlVars, restVars>>

\* Clear, lines 76-78: the identifier is given back to the registry; the
\* object still holds it in pseudo_fd
ClearRelease(t) ==
    /\ pc[t] = "release"
    /\ pseudofd_list' = ReleasedBy(handle[local[t].obj], pseudofd_list)
    /\ hist' = ReleaseCounted(handle[local[t].obj], pseudofd_list, hist)
    /\ Resume(t, On("unset_pseudo_fd", local[t], [op |-> "Release"]))
    /\ UNCHANGED <<sessVars, fileVars, worker, handle, restVars>>

\* Clear, line 79: pseudo_fd = -1
ClearUnsetPseudoFd(t) ==
    /\ pc[t] = "unset_pseudo_fd"
    /\ handle' = [handle EXCEPT ![local[t].obj].pseudo_fd = -1]
    /\ Resume(t, On("unset_physical_fd", local[t], NoReturn))
    /\ UNCHANGED <<sessVars, fileVars, worker, hist, pseudofd_list, restVars>>

\* Clear, lines 80-82: physical_fd = -1, and Clear returns true: to its
\* caller, to Set (line 146), or to the destructor, with which the object
\* is gone
ClearUnsetPhysicalFd(t) ==
    /\ pc[t] = "unset_physical_fd"
    /\ LET l == local[t]
           o == l.obj
           rec == [op |-> "Clear", obj |-> o, ret |-> TRUE]
       IN IF l.op = "~PseudoFdInfo"
          THEN /\ handle' = [x \in DOMAIN handle \ {o} |-> handle[x]]
               /\ Resume(t, Returned([op |-> "~PseudoFdInfo", obj |-> o, ret |-> TRUE]))
          ELSE /\ handle' = [handle EXCEPT ![o].physical_fd = -1]
               /\ Resume(t, IF l.op = "Set" THEN On("set_physical_fd", l, rec) ELSE Returned(rec))
    /\ UNCHANGED <<sessVars, fileVars, worker, hist, pseudofd_list, restVars>>

\* Set, line 147: physical_fd = fd
SetPhysicalFd(t) ==
    /\ pc[t] = "set_physical_fd"
    /\ handle' = [handle EXCEPT ![local[t].obj].physical_fd = local[t].fd]
    /\ Resume(t, On("set_pseudo_fd", local[t], NoReturn))
    /\ UNCHANGED <<sessVars, fileVars, worker, hist, pseudofd_list, restVars>>

\* Set, line 148: pseudo_fd = PseudoFdManager::Get()
SetPseudoFd(t) ==
    /\ pc[t] = "set_pseudo_fd"
    /\ LET id == GetPseudoFd(pseudofd_list) IN
       /\ handle' = [handle EXCEPT ![local[t].obj].pseudo_fd = id]
       /\ pseudofd_list' = pseudofd_list \cup {id}
    /\ hist' = [hist EXCEPT !.gets = @ + 1]
    /\ Resume(t, On("set_flags", local[t], [op |-> "Get"]))
    /\ UNCHANGED <<sessVars, fileVars, worker, restVars>>

\* Set, lines 149-151: flags = open_flags, and Set returns true
SetFlags(t) ==
    /\ pc[t] = "set_flags"
    /\ handle' = [handle EXCEPT ![local[t].obj].flags = local[t].open_flags]
    /\ Resume(t, Returned([op |-> "Set", obj |-> local[t].obj, ret |-> TRUE]))
    /\ UNCHANGED <<sessVars, fileVars, worker, hist, pseudofd_list, restVars>>

\* the steps of Clear, Set and the destructor behind their first, when no
\* instruction is counted
ClearSteps(t) ==
    \/ ClearResetUploadInfo(t)
    \/ ClearCloseUploadFd(t)
    \/ ClearRelease(t)
    \/ ClearUnsetPseudoFd(t)
    \/ ClearUnsetPhysicalFd(t)
    \/ SetPhysicalFd(t)
    \/ SetPseudoFd(t)
    \/ SetFlags(t)

----
(* SpecHandles: handle objects are constructed on files, set to other      *)
(* files, cleared and destroyed, each object by a thread of its own, so    *)
(* that the calls on different objects run at the same time.  handle maps  *)
(* the live objects to their fields, pseudofd_list is the registry's list  *)
(* of identifiers in use.  No upload is started on these objects: the      *)
(* session of each is the idle one, which the session variables hold.      *)

InitHandles ==
    /\ max_mp_size = MinOf(MpSizes)
    /\ file_size = 0
    /\ use_copy = FALSE
    /\ untreated = <<>>
    /\ last_untreated = -1
    /\ SessionIdle
    /\ call = NoCall
    /\ pc = [t \in HandleObjs |-> "idle"]
    /\ local = [t \in HandleObjs |-> ReqLocal]
    /\ worker = 0
    /\ hist = HandleHist
    /\ handle = <<>>
    /\ pseudofd_list = {}
    /\ RestIdle

NextHandles ==
    \E o \in HandleObjs :
        \/ HandleConstruct(o, o)
        \/ HandleClear(o, o)
        \/ HandleSet(o, o)
        \/ HandleDestroy(o, o)
        \/ ClearSteps(o)

SpecHandles == InitHandles /\ [][NextHandles]_vars

----
(* SpecUploadFd: one handle object is constructed by the request thread F, *)
(* starts a session, dispatches a part (which opens its upload             *)
(* descriptor), is cleared, set to another file and destroyed, while the   *)
(* worker of the part ends.  worker is the number of workers that run.     *)

\* ParallelMultipartUpload of the first part of the file, lines 342-352:
\* OpenUploadFd (lines 105-139), under the lock
UfdOpenUploadFd ==
    /\ pc["F"] = "idle"
    /\ "h" \in DOMAIN handle
    /\ upload_list = <<>>
    /\ \E sys_ok \in BOOLEAN :
         LET l == [ReqLocal EXCEPT !.op = "ParallelMultipartUpload", !.entry = Entry,
                                   !.mplist = <<MpPart(0, max_mp_size, 1)>>]
             r == OpenUploadFd(handle["h"], sys_ok)
             duplicated == r.h.upload_fd # handle["h"].upload_fd
             rec == [op |-> "OpenUploadFd", ret |-> r.ok]
         IN /\ duplicated => hist.dups < MaxDups
            /\ handle' = [handle EXCEPT !["h"] = r.h]
            /\ hist' = IF duplicated
                       THEN [hist EXCEPT !.open = TRUE, !.closes = 0, !.dups = @ + 1]
                       ELSE hist
            /\ Resume("F", IF r.ok THEN On("get_info", l, rec)
                           ELSE AfterPmu("F", l, FALSE, rec))
    /\ UNCHANGED <<sessVars, fileVars, worker, pseudofd_list, restVars>>

\* PreMultipartUploadRequest on the object, while it has no session
UfdPreMultipartUploadRequest ==
    /\ "h" \in DOMAIN handle
    /\ ~upload_id
    /\ ReqPreMultipartUploadRequest("F")

InitUploadFd ==
    /\ max_mp_size = MinOf(MpSizes)
    /\ file_size = 0
    /\ use_copy = FALSE
    /\ untreated = <<>>
    /\ last_untreated = -1
    /\ SessionIdle
    /\ call = NoCall
    /\ pc = [t \in {"F"} |-> "idle"]
    /\ local = [t \in {"F"} |-> ReqLocal]
    /\ worker = 0
    /\ hist = HandleHist
    /\ handle = <<>>
    /\ pseudofd_list = {}
    /\ RestIdle

NextUploadFd ==
    \/ HandleConstruct("F", "h")
    \/ UfdPreMultipartUploadRequest
    \/ PreSteps("F")
    \/ UfdOpenUploadFd
    \/ PmuSteps("F", "number")
    \/ ReqWorkerEnds
    \/ HandleClear("F", "h")
    \/ HandleSet("F", "h")
    \/ HandleDestroy("F", "h")
    \/ ClearSteps("F")
    \/ ReqWaitCheck("F")
    \/ ReqWaitAcquire("F")
    \/ ReqWaitDecrement("F")

SpecUploadFd == InitUploadFd /\ [][NextUploadFd]_vars

----
(* SpecInflight: the parts of a file are dispatched one by one by the      *)
(* request thread F, their workers end at any time, the file is written    *)
(* again, and the whole-file planner is called.  worker holds the part     *)
(* numbers whose worker runs and those whose worker has ended.             *)

\* ParallelMultipartUpload of the part of one slab that is not in the list
InflightDispatch ==
    /\ ~Planned
    /\ \E n \in 1..MaxParts :
         /\ \A p \in Range(upload_list) : p.part_num # n
         /\ ReqParallelMultipartUpload("F", {<<MpPart((n - 1) * max_mp_size, max_mp_size, n)>>},
                                       {FALSE}, MaxParts)

\* the worker of a part ends: it has uploaded the part and releases the
\* semaphore
InflightWorkerEnds ==
    /\ ~Planned
    /\ \E n \in worker.running :
         worker' = [running |-> worker.running \ {n}, ended |-> worker.ended \cup {n}]
    /\ uploaded_sem' = uploaded_sem + 1
    /\ UNCHANGED <<upload_id, upload_list, instruct_count, last_result, upload_list_lock,
                   fileVars, call, pc, local, hist>>
    /\ UNCHANGED <<hdlVars, restVars>>

\* a write inside the file, by the request thread between its calls: the
\* area becomes untreated
InflightWrite ==
    /\ ~Planned
    /\ pc["F"] = "idle"
    /\ \E start \in 0..(file_size - 1) : \E size \in 1..(file_size - start) :
         LET r == AddPart(untreated, start, size) IN
         /\ untreated' = r.list
         /\ last_untreated' = r.last
    /\ call' = [op |-> "Write"]
    /\ UNCHANGED <<sessVars, max_mp_size, file_size, use_copy, thrVars>>
    /\ UNCHANGED <<hdlVars, restVars>>

\* the whole-file flush calls the planner
InflightPlan == ~Planned /\ pc["F"] = "idle" /\ PlanCall

InitInflight ==
    /\ max_mp_size = MinOf(MpSizes)
    /\ file_size = MaxParts * max_mp_size
    /\ use_copy \in BOOLEAN
    /\ untreated = <<>>
    /\ last_untreated = -1
    /\ upload_id = TRUE
    /\ upload_list = <<>>
    /\ instruct_count = 0
    /\ last_result = 0
    /\ uploaded_sem = 0
    /\ upload_list_lock = NoThread
    /\ call = NoCall
    /\ pc = [t \in {"F"} |-> "idle"]
    /\ local = [t \in {"F"} |-> ReqLocal]
    /\ worker = [running |-> {}, ended |-> {}]
    /\ hist = [ops |-> {}]
    /\ OneOpenHandle
    /\ RestIdle

NextInflight ==
    \/ InflightDispatch
    \/ PmuSteps("F", "running parts")
    \/ InflightWorkerEnds
    \/ InflightWrite
    \/ InflightPlan

SpecInflight == InitInflight /\ [][NextInflight]_vars
----
(* SpecStream: a file written from its start and flushed at the part       *)
(* boundaries while the writes go on (no whole-file flush, no join), with  *)
(* the workers of the parts.  worker[n] is the number of workers started   *)
(* for part number n that have not ended; a worker ends on its own, at any *)
(* time.                                                                   *)

MaxStreamEnd == 6     \* the writes of the stream end at or before this offset

StreamParts == 1..(MaxStreamEnd \div MinOf(MpSizes))

StreamWrite == WriteWithin(MaxStreamEnd)

StreamFlush == ReqGetLastUpdate("F", MaxStreamEnd \div max_mp_size, MaxStreamEnd)

\* a worker ends: it records its failure in last_result when none is
\* recorded yet, and it releases the semaphore
StreamWorkerEnds ==
    /\ \E n \in StreamParts :
         /\ worker[n] > 0
         /\ worker' = [worker EXCEPT ![n] = @ - 1]
    /\ uploaded_sem' = uploaded_sem + 1
    /\ \E ok \in BOOLEAN :
         last_result' = IF ok \/ 0 # last_result THEN last_result ELSE -EIO
    /\ UNCHANGED <<upload_id, upload_list, instruct_count, upload_list_lock,
                   fileVars, call, pc, local, hist>>
    /\ UNCHANGED <<hdlVars, restVars>>

InitStream ==
    /\ max_mp_size = MinOf(MpSizes)
    /\ file_size = 0
    /\ use_copy = FALSE
    /\ untreated = <<>>
    /\ last_untreated = -1
    /\ SessionIdle
    /\ call = NoCall
    /\ pc = [t \in {"F"} |-> "idle"]
    /\ local = [t \in {"F"} |-> ReqLocal]
    /\ worker = [n \in StreamParts |-> 0]
    /\ hist = [ops |-> {}]
    /\ OneOpenHandle
    /\ RestIdle

NextStream ==
    \/ StreamWrite
    \/ StreamFlush
    \/ BoundarySteps("F", "number of part")
    \/ StreamWorkerEnds

SpecStream == InitStream /\ [][NextStream]_vars

-----------------------------------------------------------------------------
(* SpecParts: the part list of one handle, called with arguments of every  *)
(* kind: the session start by the request thread F, and, by another thread *)
(* at any time, InsertUploadPart, AppendUploadPart, GetEtaglist and         *)
(* ClearUploadInfo, each one critical section; the workers fill the etag   *)
(* entities of the parts.                                                  *)

MaxListLen == 2       \* longest upload list built

\* the arguments of the calls: valid ones, and a start, a size and a part
\* number that the calls refuse
PartStarts == -1..1
PartSizes  == 0..1
PartNums   == -1..3

PartsPreMultipartUploadRequest == ReqPreMultipartUploadRequest("F")

\* InsertUploadPart, lines 314-340, with arguments of the sets given
InsertUploadPartOf(starts, sizes, part_nums) ==
    /\ Len(upload_list) < MaxListLen
    /\ \E start \in starts, size \in sizes, part_num \in part_nums, is_copy \in BOOLEAN,
          has_ppetag \in BOOLEAN :
         IF InsertAccepts(upload_id, start, size, part_num, has_ppetag)
         THEN /\ upload_list' \in InsertedList(upload_list, start, size, part_num, is_copy)
              /\ hist' = Called("InsertUploadPart")
              /\ call' = [op |-> "InsertUploadPart", ret |-> TRUE]
         ELSE /\ UNCHANGED <<upload_list, hist>>
              /\ call' = [op |-> "InsertUploadPart", ret |-> FALSE]
    /\ UNCHANGED <<upload_id, instruct_count, last_result, uploaded_sem, upload_list_lock,
                   fileVars, pc, local, worker>>
    /\ UNCHANGED <<hdlVars, restVars>>

PartsInsertUploadPart == InsertUploadPartOf(PartStarts, PartSizes, PartNums)

\* lines 282-285: the start the next appended part must have
NextStartPos(list) ==
    IF list # <<>> THEN list[Len(list)].startpos + list[Len(list)].size ELSE 0

\* lines 277-289: the checks of AppendUploadPart
AppendAccepts_AnyStart(id, list, start) == id

AppendAccepts(id, list, start) == id /\ start = NextStartPos(list)

\* lines 292-296: the part is added at the end, numbered by the length
AppendedList(list, start, size, is_copy) ==
    Append(list, FilePart(start, size, Len(list) + 1, is_copy))

\* AppendUploadPart, lines 273-304
PartsAppendUploadPart ==
    /\ Len(upload_list) < MaxListLen
    /\ \E start \in PartStarts, size \in PartSizes, is_copy \in BOOLEAN :
         IF AppendAccepts(upload_id, upload_list, start)
         THEN /\ upload_list' = AppendedList(upload_list, start, size, is_copy)
              /\ hist' = Called("AppendUploadPart")
              /\ call' = [op |-> "AppendUploadPart", ret |-> TRUE, start |-> start, old_list |-> upload_list]
         ELSE /\ UNCHANGED <<upload_list, hist>>
              /\ call' = [op |-> "AppendUploadPart", ret |-> FALSE, start |-> start, old_list |-> upload_list]
    /\ UNCHANGED <<upload_id, instruct_count, last_result, uploaded_sem, upload_list_lock,
                   fileVars, pc, local, worker>>
    /\ UNCHANGED <<hdlVars, restVars>>

\* a worker fills the etag entity of a part of the list
PartsWorkerFillsEtag ==
    /\ \E i \in 1..Len(upload_list) :
         /\ ~upload_list[i].etag
         /\ upload_list' = [upload_list EXCEPT ![i].etag = TRUE]
    /\ call' = [op |-> "WorkerEnds"]
    /\ UNCHANGED <<upload_id, instruct_count, last_result, uploaded_sem, upload_list_lock,
                   fileVars, thrVars>>
    /\ UNCHANGED <<hdlVars, restVars>>

\* lines 254-263: the etagpair of each part, in the order of the vector
EtagsOf(list) ==
    [i \in 1..Len(list) |-> [part_num |-> list[i].part_num, etag |-> list[i].etag]]

\* the lists a caller hands to GetEtaglist: an empty one, and one that
\* holds an entry
CallerLists == {<<>>, <<[part_num |-> 1, etag |-> TRUE]>>}

\* GetEtaglist, lines 245-264: without a session it returns before the
\* caller's list is cleared (line 254)
PartsGetEtaglist ==
    /\ \E list \in CallerLists :
         call' = IF ~upload_id
                 THEN [op |-> "GetEtaglist", ret |-> FALSE, list |-> list]
                 ELSE [op |-> "GetEtaglist", ret |-> upload_list # <<>>,
                       list |-> EtagsOf(upload_list)]
    /\ UNCHANGED <<sessVars, fileVars, thrVars>>
    /\ UNCHANGED <<hdlVars, restVars>>

\* GetUploadInfo, lines 226-237
PartsGetUploadInfo ==
    /\ call' = IF ~upload_id
               THEN [op |-> "GetUploadInfo", ret |-> FALSE]
               ELSE [op |-> "GetUploadInfo", ret |-> TRUE, fd |-> handle["h"].upload_fd]
    /\ UNCHANGED <<sessVars, fileVars, thrVars>>
    /\ UNCHANGED <<hdlVars, restVars>>

\* ClearUploadInfo(false), lines 174-186
PartsClearUploadInfo ==
    /\ ResetUploadInfo
    /\ hist' = [ops |-> {}]
    /\ call' = [op |-> "ClearUploadInfo", ret |-> TRUE]
    /\ UNCHANGED <<uploaded_sem, upload_list_lock, fileVars, pc, local, worker>>
    /\ UNCHANGED <<hdlVars, restVars>>

InitParts ==
    /\ max_mp_size = MinOf(MpSizes)
    /\ file_size = 0
    /\ use_copy = FALSE
    /\ untreated = <<>>
    /\ last_untreated = -1
    /\ SessionIdle
    /\ call = NoCall
    /\ pc = [t \in {"F"} |-> "idle"]
    /\ local = [t \in {"F"} |-> ReqLocal]
    /\ worker = 0
    /\ hist = [ops |-> {}]
    /\ OneOpenHandle
    /\ RestIdle

NextParts ==
    \/ PartsPreMultipartUploadRequest
    \/ PreSteps("F")
    \/ PartsInsertUploadPart
    \/ PartsAppendUploadPart
    \/ PartsWorkerFillsEtag
    \/ PartsGetEtaglist
    \/ PartsClearUploadInfo

SpecParts == InitParts /\ [][NextParts]_vars

----
(* SpecCalls: the calls made on a handle that has no session, or that was  *)
(* constructed without a file.  The request thread F writes, starts a      *)
(* session, and calls ParallelMultipartUpload and                          *)
(* UploadBoundaryLastUntreatedArea, which build the list in a session;     *)
(* another thread makes the calls of one critical section at any time.     *)
(* The workers that the requests start are not followed.                   *)

MaxCallsEnd == 2      \* the writes end at or before this offset

\* InsertUploadPart called while no session is active, with a part that a
\* session would take
CallsInsertUploadPart == ~upload_id /\ InsertUploadPartOf({0}, {1}, {1})

\* AppendUploadPart called while no session is active
CallsAppendUploadPart == ~upload_id /\ PartsAppendUploadPart

\* the part lists handed to ParallelMultipartUpload, their parts numbered
\* by their start
PartsPlans ==
    {<<>>, <<MpPart(0, 1, 1), MpPart(1, 1, 2)>>}
        \cup {<<MpPart(start, size, start + 1)>> : start \in PartStarts, size \in PartSizes}

PartsParallelMultipartUpload == ReqParallelMultipartUpload("F", PartsPlans, BOOLEAN, MaxListLen)

\* UploadBoundaryLastUntreatedArea, lines 446-548, on a handle that may not
\* be opened
PartsUploadBoundaryLastUntreatedArea == ReqGetLastUpdate("F", MaxListLen, MaxListLen)

CallsWrite == WriteWithin(MaxCallsEnd)

InitCalls ==
    /\ max_mp_size = MinOf(MpSizes)
    /\ file_size = 0
    /\ use_copy = FALSE
    /\ untreated = <<>>
    /\ last_untreated = -1
    /\ SessionIdle
    /\ call = NoCall
    /\ pc = [t \in {"F"} |-> "idle"]
    /\ local = [t \in {"F"} |-> ReqLocal]
    /\ worker = 0
    /\ hist = [ops |-> {}]
    /\ (OneOpenHandle \/ OneClosedHandle)
    /\ RestIdle

NextCalls ==
    \/ CallsWrite
    \/ PartsPreMultipartUploadRequest
    \/ PartsParallelMultipartUpload
    \/ PartsUploadBoundaryLastUntreatedArea
    \/ BoundarySteps("F", "not followed")
    \/ CallsInsertUploadPart
    \/ CallsAppendUploadPart
    \/ PartsGetEtaglist
    \/ PartsGetUploadInfo
    \/ PartsClearUploadInfo

SpecCalls == InitCalls /\ [][NextCalls]_vars

-----------------------------------------------------------------------------
(* SpecRace: two request threads call UploadBoundaryLastUntreatedArea on   *)
(* the same handle at the same time, once each, while the workers they     *)
(* have started end.  worker is the number of workers that run.            *)

InitRace ==
    /\ max_mp_size = MinOf(MpSizes)
    /\ \E size \in 1..MaxWriteEnd :
         /\ file_size = size
         /\ untreated = <<Area(0, size)>>
    /\ last_untreated = 0
    /\ use_copy = FALSE
    /\ SessionIdle
    /\ call = NoCall
    /\ pc = [t \in RaceThreads |-> "idle"]
    /\ local = [t \in RaceThreads |-> ReqLocal]
    /\ worker = 0
    /\ hist = [ops |-> {}]
    /\ OneOpenHandle
    /\ RestIdle

NextRace ==
    \/ \E t \in RaceThreads :
         \/ ReqGetLastUpdate(t, 2 * MaxWriteEnd, 2 * MaxWriteEnd)
         \/ BoundarySteps(t, "number")
    \/ ReqWorkerEnds

SpecRace == InitRace /\ [][NextRace]_vars
-----------------------------------------------------------------------------
(* Claims on the planner (SpecPlan) *)

Bytes(s, z) == s..(s + z - 1)

\* the byte ranges of to_upload, to_copy and the parts left in upload_list
PlanPieces ==
    [i \in 1..Len(call.to_upload) |-> Area(call.to_upload[i].start, call.to_upload[i].size)]
    \o [i \in 1..Len(call.to_copy) |-> Area(call.to_copy[i].start, call.to_copy[i].size)]
    \o [i \in 1..Len(upload_list) |-> Area(upload_list[i].startpos, upload_list[i].size)]

Partitions(pieces, fsize) ==
    /\ \A i, j \in 1..Len(pieces) :
          i # j => Bytes(pieces[i].start, pieces[i].size) \cap Bytes(pieces[j].start, pieces[j].size) = {}
    /\ UNION {Bytes(pieces[i].start, pieces[i].size) : i \in 1..Len(pieces)} = 0..(fsize - 1)

OldPartsAreSlabs == \A p \in Range(call.old_list) : IsSlabPart(p, max_mp_size, file_size)

\* C1 as stated: whenever ExtractUploadPartsFromAllArea returns true (the
\* existing parts anywhere inside the file), the to_upload entries, the
\* to_copy entries and the parts left in the upload list are pairwise
\* disjoint and cover exactly [0, file_size)
C1_Original ==
    (Planned /\ call.ret) => Partitions(PlanPieces, file_size)

\* C1 amended: the same, for calls whose existing parts are each a whole
\* slab of the file (start a multiple of max_mp_size, size the slab's size)
C1_PlanPartitionsFile ==
    (Planned /\ call.ret /\ OldPartsAreSlabs) => Partitions(PlanPieces, file_size)

C1_Witness ==
    /\ Planned /\ call.ret /\ OldPartsAreSlabs
    /\ Len(call.cancel) > 0 /\ Len(call.to_copy) > 0 /\ Len(upload_list) > 0
    /\ Len(call.to_upload) > 0

SlabStart(n) == (n - 1) * max_mp_size
SlabEnd(n)   == IF n * max_mp_size <= file_size THEN n * max_mp_size ELSE file_size

\* the entry is exactly the slab of its part number
IsWholeSlab(e) == e.start = SlabStart(e.part_num) /\ e.start + e.size = SlabEnd(e.part_num)

\* C2 as stated: every to_upload and to_copy entry is at most max_mp_size
\* long, and every entry but the final slab's is exactly max_mp_size long
C2_Original ==
    Planned =>
        \A e \in Range(call.to_upload) \cup Range(call.to_copy) :
            /\ e.size <= max_mp_size
            /\ (e.start + e.size < file_size => e.size = max_mp_size)

\* C2 amended: every entry is exactly its slab (so at most max_mp_size, and
\* max_mp_size unless it is the final slab), except where use_copy is set
\* and the leading gap g of a slab was merged into the copy entry of the
\* slab before it: that copy entry starts at its slab start and is
\* max_mp_size + g long, and the upload entry of the next slab starts where
\* it ends and runs to the end of its slab
C2_EntrySizes ==
    Planned =>
        /\ \A c \in Range(call.to_copy) :
              \/ IsWholeSlab(c)
              \/ /\ use_copy
                 /\ c.start = SlabStart(c.part_num)
                 /\ c.size > max_mp_size
                 /\ \E u \in Range(call.to_upload) :
                       /\ u.part_num = c.part_num + 1
                       /\ u.start = c.start + c.size
                       /\ u.size >= MIN_MULTIPART_SIZE
                       /\ u.start + u.size = SlabEnd(u.part_num)
        /\ \A u \in Range(call.to_upload) :
              \/ IsWholeSlab(u)
              \/ /\ use_copy
                 /\ u.start > SlabStart(u.part_num)
                 /\ u.start + u.size = SlabEnd(u.part_num)
                 /\ \E c \in Range(call.to_copy) :
                       /\ c.part_num = u.part_num - 1
                       /\ c.start = SlabStart(c.part_num)
                       /\ c.start + c.size = u.start

C2_Witness ==
    /\ Planned /\ call.ret /\ use_copy
    /\ \E c \in Range(call.to_copy) : c.size > max_mp_size
    /\ \E u \in Range(call.to_upload) : u.size < max_mp_size /\ u.start + u.size < file_size

-----------------------------------------------------------------------------
(* Claims on the join and the cancel (Spec) *)

WaitLabels == {"wait_enter", "wait_check", "wait_acquire", "wait_lock", "wait_dec"}

\* thread t takes the step that returns from WaitAllThreadsExit
WaitReturns(t) == pc[t] \in WaitLabels /\ pc'[t] \notin WaitLabels

\* C3: WaitAllThreadsExit returns only from a critical section of
\* upload_list_lock in which it read instruct_count as 0, and returns the
\* last_result of that critical section; when instruct_count is 0 at its
\* first check it returns at once and leaves the semaphore alone
C3_WaitReturnsAtZero ==
    [][\A t \in Threads :
          /\ WaitReturns(t) =>
                /\ pc[t] \in {"wait_check", "wait_dec"}
                /\ upload_list_lock = ByThread(t)
                /\ instruct_count' = 0
                /\ local'[t].result = last_result
                /\ last_result' = last_result
          /\ (pc[t] = "wait_check" /\ pc'[t] # pc[t] /\ instruct_count = 0) =>
                /\ WaitReturns(t)
                /\ uploaded_sem' = uploaded_sem
                /\ local'[t].acquired = 0
      ]_vars

C3_Witness ==
    /\ pc["F"] = "done" /\ local["F"].ok
    /\ local["F"].acquired = MaxParts
    /\ local["F"].result = -EIO
    /\ pc["O"] = "idle" /\ "WaitAllThreadsExit" \in hist.ops /\ local["O"].acquired = 0

IsResetStep == \E t \in Threads : pc[t] = "clear_in" /\ pc'[t] # pc[t]
IsCancelSetStep ==
    \E t \in Threads : pc[t] = "cancel_check" /\ pc'[t] # pc[t] /\ instruct_count > 0
\* C4 as stated: once last_result is not 0, nothing but a session reset
\* replaces it
C4_Original ==
    [][last_result # 0 => (last_result' = last_result \/ IsResetStep)]_vars

\* C4 amended: once last_result is not 0 it stays not 0 until a session
\* reset, and no worker changes it, by its success or by its failure: the
\* only steps that replace it are the reset and CancelAllThreads finding
\* instruct_count > 0 (it stores -ECANCELED over the worker's errno).  And
\* of parallel parts of which one fails with EIO and the others succeed,
\* with no cancel and no reset, the join returns -EIO.
C4_FirstErrorKept ==
    /\ [][last_result # 0 =>
            /\ (last_result' # 0 \/ IsResetStep)
            /\ last_result' # last_result =>
                  \/ IsResetStep
                  \/ IsCancelSetStep /\ last_result' = -ECANCELED
         ]_vars
    /\ [](( /\ pc["F"] = "done" /\ local["F"].ok
            /\ hist.ops \subseteq {"WaitAllThreadsExit"}
            /\ \E w \in Workers : worker[w].result = -EIO )
          => local["F"].result = -EIO)

C4_Witness ==
    /\ pc["F"] = "done" /\ local["F"].ok /\ local["F"].result = -EIO
    /\ hist.ops = {}
    /\ worker[1].result = -EIO
    /\ \E w \in Workers : worker[w].result = 0 /\ worker[w].pc = "done"

\* C5 as stated: when WaitAllThreadsExit returns, every worker dispatched
\* before it was called has released the semaphore (in runs in which the
\* handle is only dispatched to and joined, never reset or canceled)
C5_Original ==
    [][\A t \in Threads :
          (WaitReturns(t) /\ hist.ops \subseteq {"WaitAllThreadsExit"}) =>
              \A w \in local[t].at_call : worker'[w].pc = "done"
      ]_vars

\* thread t takes the step that returns from CancelAllThreads
CancelReturns(t) == pc'[t] = "cancel_ret" /\ pc[t] # "cancel_ret"

\* C6: CancelAllThreads stores -ECANCELED in last_result exactly when it
\* finds instruct_count > 0 under the lock, and then returns only from a
\* critical section of the join in which instruct_count is 0; when it finds
\* instruct_count at 0 (or below) it returns leaving the session as it was
C6_CancelIsBarrier ==
    [][\A t \in Threads :
          /\ (pc[t] = "cancel_check" /\ pc'[t] # pc[t]) =>
                IF instruct_count > 0
                THEN /\ last_result' = -ECANCELED
                     /\ ~CancelReturns(t)
                     /\ UNCHANGED <<upload_id, upload_list, instruct_count>>
                ELSE /\ CancelReturns(t)
                     /\ UNCHANGED <<upload_id, upload_list, instruct_count, last_result, uploaded_sem>>
          /\ CancelReturns(t) =>
                \/ pc[t] = "cancel_check" /\ instruct_count <= 0
                \/ /\ pc[t] \in {"wait_check", "wait_dec"}
                   /\ local[t].need_cancel
                   /\ upload_list_lock = ByThread(t)
                   /\ instruct_count' = 0
      ]_vars

C6_Witness ==
    /\ pc["O"] = "cancel_ret"
    /\ local["O"].need_cancel
    /\ local["O"].acquired > 0
    /\ instruct_count = 0
    /\ \A w \in Workers : worker[w].pc = "done"

-----------------------------------------------------------------------------
(* Claims on the streaming flush (SpecFlush) *)

\* the untreated area a and the byte range (start, size) share a byte
Overlaps(a, start, size) == a.start < start + size /\ start < a.start + a.size

BoundaryReturned == call.op = "UploadBoundaryLastUntreatedArea"

\* C7 as stated: after UploadBoundaryLastUntreatedArea returns, with any
\* result, no untreated area overlaps a part of the upload list
C7_Original ==
    BoundaryReturned =>
        \A a \in Range(untreated) : \A p \in Range(upload_list) :
            ~Overlaps(a, p.startpos, p.size)

\* the part p was in the upload list when the call started, under an
\* untreated area of that time
OverlappedAtEntry(p) ==
    /\ p \in Range(call.entry.ul)
    /\ \E b \in Range(call.entry.unt) : Overlaps(b, p.startpos, p.size)

\* the part p is one that the call put into the upload list
PutByCall(p) ==
    \E e \in Range(call.to_upload) : p = FilePart(e.start, e.size, e.part_num, FALSE)

\* C7 amended: after UploadBoundaryLastUntreatedArea returns, with any
\* result: when it returns 0, each part it dispatched is in the upload list
\* and no untreated area overlaps it; when it fails, the untreated state
\* is what it was at the call; and a part of the upload list under an
\* untreated area was under one already when the call started, or is one
\* that the failed call put into the list
C7_DispatchedPartsTreated ==
    BoundaryReturned =>
        /\ 0 = call.ret =>
              \A e \in Range(call.to_upload) :
                  /\ FilePart(e.start, e.size, e.part_num, FALSE) \in Range(upload_list)
                  /\ \A a \in Range(untreated) : ~Overlaps(a, e.start, e.size)
        /\ 0 # call.ret =>
              /\ untreated = call.entry.unt
              /\ last_untreated = call.entry.last
        /\ \A a \in Range(untreated) : \A p \in Range(upload_list) :
              Overlaps(a, p.startpos, p.size) =>
                  \/ OverlappedAtEntry(p)
                  \/ 0 # call.ret /\ PutByCall(p)

\* a boundary flush that cancels a part, dispatches its slab again and
\* leaves a remainder behind the slab
C7_Witness ==
    /\ BoundaryReturned /\ call.ret = 0 /\ call.to_upload # <<>>
    /\ call.cancel # <<>>
    /\ \E a \in Range(untreated) :
          a.start = call.to_upload[Len(call.to_upload)].start + max_mp_size

\* C8 as stated: start offsets strictly increase with the part number, and
\* every part but the one with the highest part number is max_mp_size long
C8_Original ==
    \A p \in Range(upload_list) : \A q \in Range(upload_list) :
        p.part_num < q.part_num => (p.startpos < q.startpos /\ p.size = max_mp_size)

\* the copy part that took the leading gap of the next slab
AbsorbingCopy(p) ==
    /\ use_copy /\ p.is_copy
    /\ p.startpos = SlabStart(p.part_num)
    /\ p.size > max_mp_size

\* the uploaded part whose leading gap went to the copy part before it
AbsorbedUpload(p) ==
    /\ use_copy /\ ~p.is_copy
    /\ p.startpos > SlabStart(p.part_num)
    /\ p.startpos + p.size = SlabEnd(p.part_num)

\* C8 amended: in a session filled by UploadBoundaryLastUntreatedArea and
\* ParallelMultipartUploadAll, start offsets strictly increase with the part
\* number, and every part but the one with the highest part number is
\* max_mp_size long unless it is one of the two parts of a copy absorption
C8_PartsBySlab ==
    \A p \in Range(upload_list) : \A q \in Range(upload_list) :
        p.part_num < q.part_num =>
            /\ p.startpos < q.startpos
            /\ (p.size = max_mp_size \/ AbsorbingCopy(p) \/ AbsorbedUpload(p))

\* a list with a copy absorption: the copy part is not the part of the
\* highest part number, and it is longer than max_mp_size
C8_Witness ==
    \E p \in Range(upload_list) : \E q \in Range(upload_list) :
        AbsorbingCopy(p) /\ AbsorbedUpload(q) /\ q.part_num = p.part_num + 1

-----------------------------------------------------------------------------
(* Claims on the part list (SpecParts) *)

\* the part numbers of the sequence ascend
AscendingPartNums(seq) ==
    \A i \in 1..Len(seq) : \A j \in 1..Len(seq) :
        i < j => seq[i].part_num <= seq[j].part_num

EtaglistReturned == call.op = "GetEtaglist" /\ call.ret

\* GetEtaglist has returned one entry per part, in the order of the list
EtaglistFollowsList ==
    /\ Len(call.list) = Len(upload_list)
    /\ \A i \in 1..Len(upload_list) : call.list[i].part_num = upload_list[i].part_num

\* C9 as stated: after any sequence of InsertUploadPart and
\* AppendUploadPart calls the list is in ascending part-number order, and
\* so is what GetEtaglist returns
C9_Original ==
    /\ AscendingPartNums(upload_list)
    /\ EtaglistReturned => (EtaglistFollowsList /\ AscendingPartNums(call.list))

Mixed == {"InsertUploadPart", "AppendUploadPart"} \subseteq hist.ops

\* C9 amended: GetEtaglist returns one entry per part in the order of the
\* list, whatever the workers have completed; and in a session whose parts
\* were all added by InsertUploadPart, or all by AppendUploadPart, the list
\* and the entries returned are in ascending part-number order
C9_AscendingUnlessMixed ==
    /\ EtaglistReturned => EtaglistFollowsList
    /\ ~Mixed =>
          /\ AscendingPartNums(upload_list)
          /\ EtaglistReturned => AscendingPartNums(call.list)

\* GetEtaglist on a full list of inserted parts whose part numbers ascend
\* while their offsets descend, the worker of the last part done and that
\* of the first part not
C9_Witness ==
    /\ EtaglistReturned /\ hist.ops = {"InsertUploadPart"}
    /\ Len(upload_list) = MaxListLen
    /\ upload_list[1].startpos > upload_list[2].startpos
    /\ upload_list[1].part_num < upload_list[2].part_num
    /\ ~call.list[1].etag /\ call.list[2].etag

AppendReturned == call.op = "AppendUploadPart"

\* C10: AppendUploadPart succeeds only with start at the end of the last
\* part (0 on an empty list); it then adds one part at the end, numbered
\* by the previous length plus 1; with any other start it fails and the
\* list is as it was
C10_AppendContiguous ==
    AppendReturned =>
        /\ call.ret =>
              /\ call.start = NextStartPos(call.old_list)
              /\ Len(upload_list) = Len(call.old_list) + 1
              /\ SubSeq(upload_list, 1, Len(call.old_list)) = call.old_list
              /\ upload_list[Len(upload_list)].startpos = call.start
              /\ upload_list[Len(upload_list)].part_num = Len(call.old_list) + 1
        /\ call.start # NextStartPos(call.old_list) =>
              /\ ~call.ret
              /\ upload_list = call.old_list

\* an append at the end of a part, onto a list that is not empty
C10_Witness ==
    /\ AppendReturned /\ call.ret
    /\ call.old_list # <<>>
    /\ call.start > 0

-----------------------------------------------------------------------------
(* Claims on concurrent boundary flushes (SpecRace) *)

\* thread t takes the step that starts a session: the reset of
\* RowInitialUploadInfo after its initiate request
InitiateResets(t) == pc[t] = "reset" /\ pc'[t] = "set_id"

\* C11 as stated: the initiate request of a boundary flush starts a session
\* only when none is active, so it never discards the parts, the worker
\* count or the error of an active session, however two boundary flushes
\* on the handle interleave
C11_Original ==
    [][\A t \in RaceThreads :
          InitiateResets(t) =>
              /\ ~upload_id
              /\ upload_list = <<>>
              /\ instruct_count = 0
              /\ last_result = 0
      ]_vars

-----------------------------------------------------------------------------
(* Claims on calls without a session or on a closed handle (SpecCalls) *)

\* the calls on the part list that need a session
NeedSession == {"AppendUploadPart", "InsertUploadPart", "GetEtaglist", "GetUploadInfo"}

\* the request thread takes a step of a ParallelMultipartUpload that it
\* entered while no session was active
PmuStepWithoutSession ==
    \/ call'.op = "ParallelMultipartUpload" /\ ~call'.entry.id
    \/ /\ local'["F"].op = "ParallelMultipartUpload" /\ ~local'["F"].entry.id
       /\ local'["F"] # local["F"]
    \/ /\ local["F"].op = "ParallelMultipartUpload" /\ ~local["F"].entry.id
       /\ <<pc, local>>' # <<pc, local>>

\* C12: while no session is active, AppendUploadPart, InsertUploadPart,
\* GetEtaglist and GetUploadInfo return false and leave the upload list,
\* instruct_count and last_result as they were; ParallelMultipartUpload
\* called then on a non-empty list returns false, and no step of it inserts
\* a part, counts an instruction or dispatches a worker; and
\* UploadBoundaryLastUntreatedArea on a handle whose physical_fd or
\* pseudo_fd is -1 returns -EBADF and changes nothing
C12_NoSessionNoEffect ==
    [][/\ (~upload_id /\ call'.op \in NeedSession) =>
            /\ call'.ret = FALSE
            /\ UNCHANGED <<upload_list, instruct_count, last_result>>
       /\ (call'.op = "ParallelMultipartUpload" /\ ~call'.entry.id /\ call'.mplist # <<>>) =>
            /\ call'.ret = FALSE
            /\ call'.dispatched = 0
       /\ PmuStepWithoutSession =>
            UNCHANGED <<upload_list, instruct_count, last_result, uploaded_sem, worker>>
       /\ (NotOpened(handle["h"]) /\ call'.op = "UploadBoundaryLastUntreatedArea") =>
            /\ call'.ret = -EBADF
            /\ UNCHANGED <<sessVars, fileVars, thrVars, hdlVars, restVars>>
      ]_vars

\* ParallelMultipartUpload has failed on a non-empty list of valid parts,
\* on an open handle without a session, after it opened the upload descriptor
C12_Witness ==
    /\ ~upload_id
    /\ call.op = "ParallelMultipartUpload"
    /\ ~call.entry.id
    /\ call.mplist = <<MpPart(0, 1, 1), MpPart(1, 1, 2)>>
    /\ call.ret = FALSE
    /\ handle["h"].upload_fd # -1
    /\ upload_list = <<>>

-----------------------------------------------------------------------------
(* Claims on the boundary flush (SpecFlush) *)

\* the least multiple of m that is not below x
CeilAlign(x, m) == CHOOSE a \in x..(x + m - 1) : a % m = 0

\* the last updated run of the untreated list, as a set of at most one area
LastRun(list, last) == {list[i] : i \in LastUpdated(list, last)}

\* a whole slab of the run lies at or behind its aligned start
SlabFits(a, mp) ==
    /\ a.start + a.size > CeilAlign(a.start, mp)
    /\ (a.start + a.size) - CeilAlign(a.start, mp) >= mp

\* the session and the untreated state are as the call has found them
BoundaryLeftAsFound ==
    /\ upload_id = call.entry.id
    /\ upload_list = call.entry.ul
    /\ instruct_count = call.entry.count
    /\ untreated = call.entry.unt
    /\ last_untreated = call.entry.last

\* a whole slab fits in the last untreated run that the call has found
BoundaryFits == \E a \in LastRun(call.entry.unt, call.entry.last) : SlabFits(a, max_mp_size)

\* C13, as stated: UploadBoundaryLastUntreatedArea dispatches parts only
\* when the end of the last untreated run is above the run's start aligned
\* up to max_mp_size and a whole slab fits between the two; in every other
\* case it returns 0, issues no initiate request, and leaves the session
\* and the untreated state as they were
C13_Original ==
    call.op = "UploadBoundaryLastUntreatedArea" =>
        /\ call.dispatched > 0 => BoundaryFits
        /\ ~BoundaryFits =>
             /\ call.ret = 0
             /\ ~call.initiate
             /\ call.dispatched = 0
             /\ BoundaryLeftAsFound

\* the call has a path and an entity, and the handle is opened (line 450)
BoundaryArgsValid == call.path /\ call.pfdent /\ ~NotOpened(handle["h"])

\* C13: UploadBoundaryLastUntreatedArea dispatches parts only when the end
\* of the last untreated run is above the run's start aligned up to
\* max_mp_size and a whole slab fits between the two; in every other case
\* a call with a path and an entity on an opened handle returns 0, issues
\* no initiate request, and leaves the session and the untreated state as
\* they were, and a call without one of them returns -EBADF and leaves
\* them as they were too
C13_NothingBelowOneSlab ==
    call.op = "UploadBoundaryLastUntreatedArea" =>
        /\ call.dispatched > 0 => (BoundaryFits /\ BoundaryArgsValid)
        /\ ~BoundaryArgsValid =>
             /\ call.ret = -EBADF
             /\ ~call.initiate
             /\ call.dispatched = 0
             /\ BoundaryLeftAsFound
        /\ (BoundaryArgsValid /\ ~BoundaryFits) =>
             /\ call.ret = 0
             /\ ~call.initiate
             /\ call.dispatched = 0
             /\ BoundaryLeftAsFound

\* a boundary flush in a session with a part has returned 0 on a run that
\* starts off the boundary and ends behind it, less than a slab behind
C13_Witness ==
    /\ call.op = "UploadBoundaryLastUntreatedArea"
    /\ call.ret = 0
    /\ call.dispatched = 0
    /\ upload_id
    /\ upload_list # <<>>
    /\ \E a \in LastRun(untreated, last_untreated) :
         /\ a.start % max_mp_size # 0
         /\ a.start + a.size > CeilAlign(a.start, max_mp_size)
         /\ ~SlabFits(a, max_mp_size)

-----------------------------------------------------------------------------
(* Claims on the streaming flush (SpecStream) *)

\* the parts are the k whole slabs that follow the aligned start of run a
WholeSlabsFrom(parts, a, mp) ==
    \A i \in 1..Len(parts) :
        /\ parts[i].start = CeilAlign(a.start, mp) + (i - 1) * mp
        /\ parts[i].size = mp
        /\ parts[i].part_num = (parts[i].start \div mp) + 1

\* the fragments of run a in front of and behind k whole slabs
Fragments(a, k, mp) ==
    LET front  == Area(a.start, CeilAlign(a.start, mp) - a.start)
        behind == Area(CeilAlign(a.start, mp) + k * mp,
                       (a.start + a.size) - (CeilAlign(a.start, mp) + k * mp))
    IN {f \in {front, behind} : f.size # 0}

\* what a flush that submitted parts leaves of run a, which it has found
\* last updated: the slabs in the list, the run replaced by its two
\* fragments, each shorter than a part
SlabsAndFragments(a) ==
    LET parts == call.to_upload
        mp    == max_mp_size
    IN /\ WholeSlabsFrom(parts, a, mp)
       /\ call.dispatched = Len(parts)
       /\ \A i \in 1..Len(parts) :
             \E p \in Range(upload_list) :
                 /\ p.startpos = parts[i].start
                 /\ p.size = parts[i].size
                 /\ p.part_num = parts[i].part_num
       /\ \A f \in Fragments(a, Len(parts), mp) : 0 < f.size /\ f.size < mp
       /\ Range(untreated) = (Range(call.entry.unt) \ {a}) \cup Fragments(a, Len(parts), mp)

\* C14: every boundary flush that submits a part leaves the submitted
\* slabs, consecutive whole slabs from the aligned start of the run and
\* numbered by slab, in the upload list, and the run replaced in the
\* untreated list by its two fragments, each shorter than a part
C14_Original ==
    (call.op = "UploadBoundaryLastUntreatedArea" /\ call.dispatched > 0) =>
        \E a \in LastRun(call.entry.unt, call.entry.last) : SlabsAndFragments(a)

-----------------------------------------------------------------------------
(* Claims on the planner's cases (SpecPlan) *)

\* the part numbers of the slabs of the file
Slabs == 1..SlabCount(max_mp_size, file_size)

\* slab n overlaps an untreated area
HasUntreated(n) ==
    \E a \in Range(untreated) : a.start < SlabEnd(n) /\ SlabStart(n) < a.start + a.size

\* the parts of the list found by the planner that cover slab n
Covering(n) ==
    {p \in Range(call.old_list) :
        p.startpos <= SlabStart(n) /\ SlabEnd(n) <= p.startpos + p.size}

\* the entries of a list of parts that carry part number n
EntriesOf(list, n) == {i \in 1..Len(list) : list[i].part_num = n}

\* the entries of to_download that overlap slab n
DownloadsIn(n) ==
    {i \in 1..Len(call.to_download) :
        /\ call.to_download[i].start < SlabEnd(n)
        /\ SlabStart(n) < call.to_download[i].start + call.to_download[i].size}

\* what the planner does with slab n, which overlaps no untreated area
CleanSlabPlanned(n) ==
    IF Covering(n) # {}
    THEN /\ EntriesOf(call.to_upload, n) = {}
         /\ EntriesOf(call.to_copy, n) = {}
         /\ DownloadsIn(n) = {}
         /\ \A p \in Covering(n) : p \in Range(upload_list) /\ p \notin Range(call.cancel)
    ELSE IF use_copy
    THEN /\ \E i \in 1..Len(call.to_copy) :
              /\ EntriesOf(call.to_copy, n) = {i}
              /\ call.to_copy[i].start = SlabStart(n)
         /\ EntriesOf(call.to_upload, n) = {}
         /\ DownloadsIn(n) = {}
    ELSE /\ \E i \in 1..Len(call.to_upload) :
              /\ EntriesOf(call.to_upload, n) = {i}
              /\ call.to_upload[i] = MpPart(SlabStart(n), SlabEnd(n) - SlabStart(n), n)
         /\ \E i \in 1..Len(call.to_download) :
              /\ DownloadsIn(n) = {i}
              /\ call.to_download[i] = Area(SlabStart(n), SlabEnd(n) - SlabStart(n))
         /\ EntriesOf(call.to_copy, n) = {}

\* C15 as stated: for every slab without untreated data (the existing parts
\* anywhere inside the file), a part that covers the slab stays and nothing
\* is emitted; otherwise one to_copy entry at the slab start is emitted when
\* use_copy is set, and one to_download and one to_upload entry equal to the
\* slab when it is not
C15_Original ==
    (Planned /\ call.ret) =>
        \A n \in Slabs : ~HasUntreated(n) => CleanSlabPlanned(n)

\* C15 amended: the same, for calls whose existing parts are each a whole
\* slab of the file
C15_CleanSlab ==
    (Planned /\ call.ret /\ OldPartsAreSlabs) =>
        \A n \in Slabs : ~HasUntreated(n) => CleanSlabPlanned(n)

\* a plan over three clean slabs at least: one covered by a part, others not
C15_Witness ==
    /\ Planned /\ call.ret /\ OldPartsAreSlabs
    /\ \E n, m \in Slabs :
         /\ ~HasUntreated(n) /\ Covering(n) # {}
         /\ ~HasUntreated(m) /\ Covering(m) = {}
    /\ \E n \in Slabs : HasUntreated(n)

\* what the planner does with slab n, which overlaps an untreated area and
\* is covered by the existing part p
CoveredSlabPlanned(n, p) ==
    /\ p \notin Range(upload_list)
    /\ p \in Range(call.cancel)
    /\ \E i \in 1..Len(call.to_upload) :
         /\ EntriesOf(call.to_upload, p.part_num) = {i}
         /\ call.to_upload[i] = MpPart(SlabStart(n), SlabEnd(n) - SlabStart(n), p.part_num)
    /\ EntriesOf(call.to_upload, n) \subseteq EntriesOf(call.to_upload, p.part_num)
    /\ EntriesOf(call.to_copy, n) = {}
    /\ \A c \in Range(call.to_copy) : c.start + c.size <= SlabStart(n) \/ SlabEnd(n) <= c.start
    /\ DownloadsIn(n) = {}

\* C16 as stated: for every slab with untreated data that an existing part
\* covers (the existing parts anywhere inside the file), the part leaves the
\* upload list for the cancel list, one to_upload entry for the whole slab
\* with the part's number is emitted, and nothing is emitted to to_download
\* or to_copy for the slab
C16_Original ==
    (Planned /\ call.ret) =>
        \A n \in Slabs : HasUntreated(n) => \A p \in Covering(n) : CoveredSlabPlanned(n, p)

\* C16 amended: the same, for calls whose existing parts are each a whole
\* slab of the file
C16_CoveredSlab ==
    (Planned /\ call.ret /\ OldPartsAreSlabs) =>
        \A n \in Slabs : HasUntreated(n) => \A p \in Covering(n) : CoveredSlabPlanned(n, p)

\* the example, with max_mp_size 3: part 1 holds (0,3), then (1,1) is
\* written; the plan cancels part 1 and uploads (0,3) as part 1 again
C16_Witness ==
    /\ Planned /\ call.ret
    /\ max_mp_size = 3
    /\ untreated = <<Area(1, 1)>>
    /\ call.old_list = <<FilePart(0, 3, 1, FALSE)>>
    /\ call.cancel = <<FilePart(0, 3, 1, FALSE)>>
    /\ call.to_upload = <<MpPart(0, 3, 1)>>
    /\ upload_list = <<>>

-----------------------------------------------------------------------------
(* Claims on the planner and the workers (SpecInflight) *)

\* the cancelled parts whose worker had not ended when the planner ran
StillInFlight == {p \in Range(call.cancel) : p.part_num \in worker.running}

\* C17 as stated: wait_upload_complete is true exactly when a part placed in
\* the cancel list had an upload still in flight when the planner ran; it
\* is false when the cancel list is empty or every cancelled part's upload
\* had ended
C17_Original ==
    (Planned /\ call.ret) => (call.wait_upload_complete <=> StillInFlight # {})

-----------------------------------------------------------------------------
(* Claims on the unified copy (SpecUnify) *)

\* an existing part overlaps slab n
HasPart(n) ==
    \E p \in Range(call.old_list) :
        p.startpos < SlabEnd(n) /\ SlabStart(n) < p.startpos + p.size

\* where the first untreated area of slab n begins, inside the slab
FirstUntreated(n) ==
    MinOf({MaxOf({a.start, SlabStart(n)}) :
              a \in {b \in Range(untreated) :
                        b.start < SlabEnd(n) /\ SlabStart(n) < b.start + b.size}})

\* a to_copy entry of an earlier slab reaches into slab n
Absorbed(n) ==
    \E c \in Range(call.to_copy) : c.start < SlabStart(n) /\ SlabStart(n) < c.start + c.size

\* C18: the gap in front of the first untreated area of a slab is unified
\* with the to_copy entry before it only when use_copy is set, the entry is
\* the copy of the slab before and ended at the slab start, the enlarged
\* entry is within FIVE_GB and what is left to upload of the slab is at
\* least MIN_MULTIPART_SIZE; otherwise the gap is in to_download.  So no
\* to_copy entry is above FIVE_GB and no shortened to_upload entry is below
\* MIN_MULTIPART_SIZE
C18_UnifyWithinLimits ==
    (Planned /\ call.ret) =>
        /\ \A n \in Slabs :
              (HasUntreated(n) /\ ~HasPart(n) /\ SlabStart(n) < FirstUntreated(n)) =>
                  LET gap == FirstUntreated(n) - SlabStart(n) IN
                  IF Absorbed(n)
                  THEN /\ use_copy
                       /\ \E c \in Range(call.to_copy) :
                             /\ c.part_num = n - 1
                             /\ c.start = SlabStart(n - 1)
                             /\ c.size = (SlabStart(n) - SlabStart(n - 1)) + gap
                             /\ c.size <= MaxCopyUnits
                       /\ SlabEnd(n) - FirstUntreated(n) >= MinPartUnits
                       /\ \A d \in Range(call.to_download) :
                             d.start + d.size <= SlabStart(n) \/ FirstUntreated(n) <= d.start
                  ELSE \E i \in 1..Len(call.to_download) :
                           call.to_download[i] = Area(SlabStart(n), gap)
        /\ \A c \in Range(call.to_copy) : c.size <= MaxCopyUnits
        /\ \A u \in Range(call.to_upload) :
              SlabStart(u.part_num) < u.start => u.size >= MinPartUnits

\* a copy entry was enlarged by a gap up to FIVE_GB exactly
C18_Witness ==
    /\ Planned /\ call.ret /\ use_copy
    /\ \E c \in Range(call.to_copy) : c.size = MaxCopyUnits /\ max_mp_size < c.size
    /\ \E u \in Range(call.to_upload) : SlabStart(u.part_num) < u.start

-----------------------------------------------------------------------------
(* Claims on the part numbers of a plan (SpecPlan) *)

\* the part numbers of to_upload, to_copy and the parts left in upload_list
PlanPartNums ==
    [i \in 1..Len(call.to_upload) |-> call.to_upload[i].part_num]
    \o [i \in 1..Len(call.to_copy) |-> call.to_copy[i].part_num]
    \o [i \in 1..Len(upload_list) |-> upload_list[i].part_num]

NoDuplicates(seq) == \A i, j \in 1..Len(seq) : i # j => seq[i] # seq[j]

\* every entry of to_upload and to_copy lies in the slab of its part number
NumberedBySlab ==
    \A e \in Range(call.to_upload) \cup Range(call.to_copy) :
        /\ e.part_num \in Slabs
        /\ SlabStart(e.part_num) <= e.start
        /\ e.start < SlabEnd(e.part_num)

\* every part the planner found carries the number of the slab it starts in
OldPartsNumberedBySlab ==
    \A p \in Range(call.old_list) : p.part_num = (p.startpos \div max_mp_size) + 1

\* C19 as stated: every to_upload and to_copy entry of the slab with index
\* k carries part number k + 1, and no part number occurs twice among
\* to_upload, to_copy and the parts left in the upload list (the existing
\* parts anywhere inside the file)
C19_Original ==
    (Planned /\ call.ret) => (NumberedBySlab /\ NoDuplicates(PlanPartNums))

\* C19 amended: every to_upload and to_copy entry of every call lies in
\* the slab of its part number, whatever the existing parts are; and no
\* part number occurs twice among to_upload, to_copy and the parts left in
\* the upload list when the call returns true and the existing parts are
\* each a whole slab of the file with that slab's part number
C19_PartNumbers ==
    /\ Planned => NumberedBySlab
    /\ (Planned /\ call.ret /\ OldPartsAreSlabs /\ OldPartsNumberedBySlab) =>
          NoDuplicates(PlanPartNums)

\* a plan of three slabs or more that uploads, copies and keeps a part
C19_Witness ==
    /\ Planned /\ call.ret /\ OldPartsAreSlabs /\ OldPartsNumberedBySlab
    /\ Len(call.to_upload) > 0 /\ Len(call.to_copy) > 0 /\ Len(upload_list) > 0
    /\ \E u \in Range(call.to_upload) : SlabStart(u.part_num) < u.start

-----------------------------------------------------------------------------
(* Claims on the handle identifiers (SpecHandles) *)

\* the identifiers the live objects hold
HeldIds == {handle[o].pseudo_fd : o \in DOMAIN handle} \ {-1}

\* no call is running on any object
AllReturned == \A t \in DOMAIN pc : pc[t] = "idle"

\* no two live objects hold the same pseudo_fd
UniqueIds ==
    \A o1, o2 \in DOMAIN handle :
        (o1 # o2 /\ -1 # handle[o1].pseudo_fd) => handle[o1].pseudo_fd # handle[o2].pseudo_fd

\* every Release is of an identifier in use, and between the calls the
\* identifiers handed out and not released are those the live objects hold
ReleasedOnce ==
    /\ hist.unknown = 0
    /\ AllReturned =>
          /\ pseudofd_list = HeldIds
          /\ hist.gets - hist.releases =
                Cardinality({o \in DOMAIN handle : -1 # handle[o].pseudo_fd})

\* after Clear the object has pseudo_fd -1 and physical_fd -1 and is
\* neither Readable nor Writable
ClearedOnReturn ==
    call.op = "Clear" =>
        /\ handle[call.obj].pseudo_fd = -1
        /\ handle[call.obj].physical_fd = -1
        /\ ~Readable(handle[call.obj])
        /\ ~Writable(handle[call.obj])

\* C20: at any time no two live objects hold the same pseudo_fd; every
\* identifier handed out by the registry is released exactly once; after
\* Clear the object has pseudo_fd -1 and physical_fd -1 and is neither
\* Readable nor Writable
C20_Original ==
    /\ UniqueIds
    /\ ReleasedOnce
    /\ ClearedOnReturn

-----------------------------------------------------------------------------
(* SpecCache: the stat cache (class StatCache, src/src/cache.h) called     *)
(* with add, add of a missing object, lookups, delete and the no-truncate  *)
(* flag, while the clock advances.  Every call holds stat_cache_lock from  *)
(* its start to its end, so a call is one step.  A path is its parent      *)
(* directory, its name and whether it ends in "/".  Entries expire.        *)

MaxClock     == 2     \* the clock runs from 0 to MaxClock
MaxPins      == 1     \* largest no-truncate counter

ExpireTimes == {1}    \* the values of ExpireTime drawn
CacheSizes  == {1, 2} \* the values of CacheSize drawn

Path(dir, name, slash) == [dir |-> dir, name |-> name, slash |-> slash]

Paths == {Path("/", "d", FALSE), Path("/", "d", TRUE)}

\* the same path with the trailing "/" added or taken away
SlashTwin(key) == [key EXCEPT !.slash = ~@]

\* the name of key in the list of its parent directory
ChildName(key) == [name |-> key.name, slash |-> key.slash]

NoEtag == "none"
Etags  == {"a", "b"}

\* stat_cache_entry, lines 40-48 (the hit counter, which no call reads,
\* is left out)
StatCacheEntry(cache_date, etag, isforce, noobjcache, notruncate) ==
    [cache_date |-> cache_date, etag |-> etag, isforce |-> isforce,
     noobjcache |-> noobjcache, notruncate |-> notruncate]

MapErase(f, k) == [x \in DOMAIN f \ {k} |-> f[x]]

MapSet(f, k, v) == [x \in DOMAIN f \cup {k} |-> IF x = k THEN v ELSE f[x]]

SeqWithout(s, v) == SelectSeq(s, LAMBDA x : x # v)

\* the two containers as one value: sc is stat_cache, nt is
\* notruncate_file_cache
Containers == [sc |-> stat_cache, nt |-> notruncate_file_cache]

\* AddNotruncateCache, line 105
AddNotruncateCache(nt, key) ==
    LET list == IF key.dir \in DOMAIN nt THEN nt[key.dir] ELSE <<>>
    IN IF \E i \in 1..Len(list) : list[i] = ChildName(key) THEN nt
       ELSE MapSet(nt, key.dir, Append(list, ChildName(key)))

\* DelNotruncateCache, line 106
DelNotruncateCache(nt, key) ==
    IF key.dir \notin DOMAIN nt THEN nt
    ELSE LET list == SeqWithout(nt[key.dir], ChildName(key))
         IN IF list = <<>> THEN MapErase(nt, key.dir) ELSE MapSet(nt, key.dir, list)

\* DelStatHasLock, line 108: the entry and its no-truncate bookkeeping
DelStatHasLock(c, key) ==
    IF key \notin DOMAIN c.sc THEN c
    ELSE [sc |-> MapErase(c.sc, key),
          nt |-> IF c.sc[key].notruncate > 0 THEN DelNotruncateCache(c.nt, key) ELSE c.nt]

\* whether an entry of that date is too old at time t
IsExpireStatCacheTime_OneLater(cache_date, t, expire) == t - cache_date > expire + 1

IsExpireStatCacheTime(cache_date, t, expire) == t - cache_date > expire

\* whether the entry of key is to be served no more
Expired(sc, key) ==
    /\ key \in DOMAIN sc
    /\ IsExpireTime
    /\ IsExpireStatCacheTime(sc[key].cache_date, now, ExpireTime)

\* one access to the entry of key: an entry too old is removed and missed
Access(c, key) ==
    IF key \notin DOMAIN c.sc THEN [found |-> FALSE, c |-> c]
    ELSE IF Expired(c.sc, key) THEN [found |-> FALSE, c |-> DelStatHasLock(c, key)]
    ELSE [found |-> TRUE, c |-> c]

\* the lookup of key: the path itself and, with overcheck, the path with
\* the other ending
LookupWithTwin(c, key, overcheck) ==
    LET a1 == Access(c, key)
        a2 == IF a1.found \/ ~overcheck THEN a1 ELSE Access(a1.c, SlashTwin(key))
    IN [found |-> a2.found, c |-> a2.c,
        from |-> IF a1.found \/ ~overcheck THEN key ELSE SlashTwin(key)]

LookupExactOnly(c, key, overcheck) ==
    LET a1 == Access(c, key)
    IN [found |-> a1.found, c |-> a1.c, from |-> key]

Lookup(c, key, overcheck) == LookupWithTwin(c, key, overcheck)

\* the entry served: its date is renewed when the time to live counts from
\* the last access
Served(c, key) ==
    IF IsExpireIntervalType THEN [c EXCEPT !.sc[key].cache_date = now] ELSE c

\* GetStat, lines 99 and 143-167
GetStat(c, key, overcheck, petag) ==
    LET l == Lookup(c, key, overcheck)
    IN IF ~l.found
       THEN [ret |-> "miss", c |-> l.c, from |-> key]
       ELSE IF petag # NoEtag /\ petag # l.c.sc[l.from].etag
       THEN [ret |-> "miss", c |-> l.c, from |-> key]
       ELSE [ret  |-> IF l.c.sc[l.from].noobjcache THEN "negative" ELSE "hit",
             c    |-> Served(l.c, l.from),
             from |-> l.from]

\* IsNoObjectCache, line 170
IsNoObjectCache_NeverKnown(c, key, overcheck) ==
    [ret |-> FALSE, c |-> Lookup(c, key, overcheck).c]

IsNoObjectCache(c, key, overcheck) ==
    LET l == Lookup(c, key, overcheck)
    IN IF l.found /\ l.c.sc[l.from].noobjcache
       THEN [ret |-> TRUE, c |-> Served(l.c, l.from)]
       ELSE [ret |-> FALSE, c |-> l.c]

\* the entries TruncateCache may remove
Removable(sc) == {p \in DOMAIN sc : sc[p].notruncate = 0 /\ ~sc[p].isforce}

\* a truncation that removes the youngest entries first
RECURSIVE TruncateCache_YoungestFirst(_, _)
TruncateCache_YoungestFirst(c, size) ==
    LET cand     == Removable(c.sc)
        youngest == {p \in cand : \A q \in cand : c.sc[p].cache_date >= c.sc[q].cache_date}
    IN IF Cardinality(DOMAIN c.sc) <= size \/ cand = {} THEN {c}
       ELSE UNION {TruncateCache_YoungestFirst(DelStatHasLock(c, p), size) : p \in youngest}

\* TruncateCache, line 101: the caches that removing the oldest entries
\* first can leave (entries of one date are removed in any order)
RECURSIVE TruncateCache(_, _)
TruncateCache(c, size) ==
    LET cand   == Removable(c.sc)
        oldest == {p \in cand : \A q \in cand : c.sc[p].cache_date <= c.sc[q].cache_date}
    IN IF Cardinality(DOMAIN c.sc) <= size \/ cand = {} THEN {c}
       ELSE UNION {TruncateCache(DelStatHasLock(c, p), size) : p \in oldest}

\* the entry of key replaced by ent, before the size is looked at
Replaced(c, key, ent) ==
    LET d == DelStatHasLock(c, key)
    IN [sc |-> MapSet(d.sc, key, ent),
        nt |-> IF ent.notruncate > 0 THEN AddNotruncateCache(d.nt, key) ELSE d.nt]

\* AddStat, line 174
AddStat(c, key, etag, forcedir, no_truncate) ==
    TruncateCache(Replaced(c, key, StatCacheEntry(now, etag, forcedir, FALSE,
                                                  IF no_truncate THEN 1 ELSE 0)),
                  CacheSize)

\* AddNoObjectCache, line 171
AddNoObjectCache_Always(c, key) ==
    TruncateCache(Replaced(c, key, StatCacheEntry(now, NoEtag, FALSE, TRUE, 0)), CacheSize)

AddNoObjectCache(c, key) ==
    IF ~UseNegativeCache THEN {c}
    ELSE TruncateCache(Replaced(c, key, StatCacheEntry(now, NoEtag, FALSE, TRUE, 0)),
                       CacheSize)

\* ChangeNoTruncateFlag, line 180
ChangeNoTruncateFlag(c, key, no_truncate) ==
    IF key \notin DOMAIN c.sc THEN c
    ELSE IF no_truncate
    THEN [sc |-> [c.sc EXCEPT ![key].notruncate = @ + 1],
          nt |-> IF c.sc[key].notruncate = 0 THEN AddNotruncateCache(c.nt, key) ELSE c.nt]
    ELSE IF c.sc[key].notruncate = 0 THEN c
    ELSE [sc |-> [c.sc EXCEPT ![key].notruncate = @ - 1],
          nt |-> IF c.sc[key].notruncate = 1 THEN DelNotruncateCache(c.nt, key) ELSE c.nt]

----
(* The calls *)

cacheOpts == <<IsExpireTime, IsExpireIntervalType, ExpireTime, CacheSize, UseNegativeCache>>
cacheRest == <<sessVars, fileVars, thrVars, hdlVars, pages, input, sigVars>>

SetContainers(c) ==
    /\ stat_cache' = c.sc
    /\ notruncate_file_cache' = c.nt

\* the dates of the entries of the cache that are not in the cache c
DatesOfGone(c) ==
    [p \in DOMAIN stat_cache \ DOMAIN c.sc |-> stat_cache[p].cache_date]

\* AddStat of one of the paths keys; the record holds the dates of the
\* entries it has removed
CacheAddStatOf(keys) ==
    /\ \E key \in keys, forcedir \in BOOLEAN, no_truncate \in BOOLEAN :
       \E c \in AddStat(Containers, key, "a", forcedir, no_truncate) :
          /\ SetContainers(c)
          /\ call' = [op |-> "AddStat", key |-> key, ret |-> TRUE,
                      evicted |-> DatesOfGone(c)]
    /\ UNCHANGED <<cacheOpts, now, cacheRest>>

CacheAddStat == CacheAddStatOf(Paths)

CacheAddNoObjectCache ==
    /\ \E key \in Paths :
       \E c \in AddNoObjectCache(Containers, key) :
          /\ SetContainers(c)
          /\ call' = [op |-> "AddNoObjectCache", key |-> key, ret |-> UseNegativeCache]
    /\ UNCHANGED <<cacheOpts, now, cacheRest>>

CacheGetStat ==
    /\ \E key \in Paths, overcheck \in BOOLEAN, petag \in Etags \cup {NoEtag} :
         LET r == GetStat(Containers, key, overcheck, petag)
         IN /\ SetContainers(r.c)
            /\ call' = [op |-> "GetStat", key |-> key, ret |-> r.ret, from |-> r.from]
    /\ UNCHANGED <<cacheOpts, now, cacheRest>>

CacheIsNoObjectCache ==
    /\ \E key \in Paths, overcheck \in BOOLEAN :
         LET r == IsNoObjectCache(Containers, key, overcheck)
         IN /\ SetContainers(r.c)
            /\ call' = [op |-> "IsNoObjectCache", key |-> key, ret |-> r.ret]
    /\ UNCHANGED <<cacheOpts, now, cacheRest>>

\* DelStat, lines 183-187, of one of the paths keys
CacheDelStatOf(keys) ==
    /\ \E key \in keys :
          /\ SetContainers(DelStatHasLock(Containers, key))
          /\ call' = [op |-> "DelStat", key |-> key, ret |-> key \in DOMAIN stat_cache]
    /\ UNCHANGED <<cacheOpts, now, cacheRest>>

CacheDelStat == CacheDelStatOf(Paths)

\* ChangeNoTruncateFlag of one of the paths keys
CacheChangeNoTruncateFlagOf(keys) ==
    /\ \E key \in keys, no_truncate \in BOOLEAN :
          /\ no_truncate /\ key \in DOMAIN stat_cache => stat_cache[key].notruncate < MaxPins
          /\ SetContainers(ChangeNoTruncateFlag(Containers, key, no_truncate))
          /\ call' = [op |-> "ChangeNoTruncateFlag", key |-> key, ret |-> no_truncate]
    /\ UNCHANGED <<cacheOpts, now, cacheRest>>

CacheChangeNoTruncateFlag == CacheChangeNoTruncateFlagOf(Paths)

\* a second passes
CacheTick ==
    /\ now < MaxClock
    /\ now' = now + 1
    /\ call' = [op |-> "tick"]
    /\ UNCHANGED <<stat_cache, notruncate_file_cache, cacheOpts, cacheRest>>

InitCache ==
    /\ max_mp_size = MinOf(MpSizes)
    /\ file_size = 0
    /\ use_copy = FALSE
    /\ untreated = <<>>
    /\ last_untreated = -1
    /\ SessionIdle
    /\ call = NoCall
    /\ pc = <<>>
    /\ local = <<>>
    /\ worker = <<>>
    /\ hist = <<>>
    /\ handle = <<>>
    /\ pseudofd_list = {}
    /\ pages = <<>>
    /\ input = <<>>
    /\ NoSignals
    /\ stat_cache = <<>>
    /\ notruncate_file_cache = <<>>
    /\ IsExpireTime = TRUE
    /\ IsExpireIntervalType \in BOOLEAN
    /\ ExpireTime \in ExpireTimes
    /\ CacheSize \in CacheSizes
    /\ UseNegativeCache \in BOOLEAN
    /\ now = 0

NextCache ==
    \/ CacheAddStat
    \/ CacheAddNoObjectCache
    \/ CacheGetStat
    \/ CacheIsNoObjectCache
    \/ CacheDelStat
    \/ CacheChangeNoTruncateFlag
    \/ CacheTick

SpecCache == InitCache /\ [][NextCache]_vars

----
(* SpecEvict: the stat cache called with add, del and the no-truncate flag *)
(* on three paths of one directory, while the clock advances, so that an   *)
(* add finds two entries of different dates to choose from.  No entry      *)
(* expires and no lookup is made.                                          *)

EvictPaths == Paths \cup {Path("/", "e", FALSE)}

InitEvict ==
    /\ max_mp_size = MinOf(MpSizes)
    /\ file_size = 0
    /\ use_copy = FALSE
    /\ untreated = <<>>
    /\ last_untreated = -1
    /\ SessionIdle
    /\ call = NoCall
    /\ pc = <<>>
    /\ local = <<>>
    /\ worker = <<>>
    /\ hist = <<>>
    /\ handle = <<>>
    /\ pseudofd_list = {}
    /\ pages = <<>>
    /\ input = <<>>
    /\ NoSignals
    /\ stat_cache = <<>>
    /\ notruncate_file_cache = <<>>
    /\ IsExpireTime = FALSE
    /\ IsExpireIntervalType = FALSE
    /\ ExpireTime \in ExpireTimes
    /\ CacheSize \in CacheSizes
    /\ UseNegativeCache = FALSE
    /\ now = 0

EvictAddStat == CacheAddStatOf(EvictPaths)

EvictDelStat == CacheDelStatOf(EvictPaths)

EvictChangeNoTruncateFlag == CacheChangeNoTruncateFlagOf(EvictPaths)

NextEvict ==
    \/ EvictAddStat
    \/ EvictDelStat
    \/ EvictChangeNoTruncateFlag
    \/ CacheTick

SpecEvict == InitEvict /\ [][NextEvict]_vars

-----------------------------------------------------------------------------
(* Claims on the stat cache (SpecCache) *)

\* the step is GetStat and it returned an entry
GetStatServes == call'.op = "GetStat" /\ call'.ret # "miss"

\* the age, when GetStat returns, of the entry it returned
ServedAge == now - stat_cache[call'.from].cache_date

\* C21 as stated: every entry that get returns is no older than ExpireTime
\* when get returns, and a get of a path that follows the del of that path
\* misses
C21_Original ==
    [][/\ GetStatServes /\ IsExpireTime => ServedAge <= ExpireTime
       /\ call.op = "DelStat" /\ call'.op = "GetStat" /\ call'.key = call.key
            => call'.ret = "miss"]_vars

\* C21: every entry that get returns is no older than ExpireTime when get
\* returns; del leaves no entry of the path, an entry of a path appears only
\* by an add of that path, and a get of a path that has no entry misses or,
\* with overcheck, is served from the entry of the path with the other
\* ending
C21_FreshAndNotResurrected ==
    [][/\ GetStatServes /\ IsExpireTime => ServedAge <= ExpireTime
       /\ call'.op = "DelStat" => call'.key \notin DOMAIN stat_cache'
       /\ \A p \in Paths :
            p \notin DOMAIN stat_cache /\ p \in DOMAIN stat_cache'
              => call'.op \in {"AddStat", "AddNoObjectCache"} /\ call'.key = p
       /\ call'.op = "GetStat" /\ call'.key \notin DOMAIN stat_cache
            => call'.ret = "miss" \/ call'.from = SlashTwin(call'.key)]_vars

\* a get of a path without an entry was served, by overcheck, an entry that
\* was added before the clock advanced and is still young enough
C21_Witness ==
    /\ call.op = "GetStat"
    /\ call.ret = "hit"
    /\ call.key \notin DOMAIN stat_cache
    /\ call.from = SlashTwin(call.key)
    /\ now - stat_cache[call.from].cache_date = ExpireTime

\* the cache holds, for p, an entry that says the object does not exist
NegativeEntry(sc, p) == p \in DOMAIN sc /\ sc[p].noobjcache

\* the step is a lookup that finds the entry of p too old
ExpiresAtLookup(p) ==
    /\ Expired(stat_cache, p)
    /\ call'.op \in {"GetStat", "IsNoObjectCache"}

\* the step deletes p or replaces its entry by an add
DeletedOrReplaced(p) == call'.op \in {"DelStat", "AddStat"} /\ call'.key = p

\* the step is an add made while the cache holds CacheSize entries or more
AddsToFullCache ==
    /\ call'.op \in {"AddStat", "AddNoObjectCache"}
    /\ Cardinality(DOMAIN stat_cache) >= CacheSize

\* an unexpired entry for a missing object answers the lookup of its path
NegativeEntryAnswers ==
    call'.op = "IsNoObjectCache" /\ NegativeEntry(stat_cache, call'.key)
      /\ ~Expired(stat_cache, call'.key) => call'.ret

\* without negative caching AddNoObjectCache changes nothing and no lookup
\* is answered "known not to exist"
DisabledIsNoOp ==
    ~UseNegativeCache =>
       /\ call'.op = "AddNoObjectCache" => UNCHANGED <<stat_cache, notruncate_file_cache>>
       /\ call'.op = "IsNoObjectCache" => ~call'.ret

\* C22 as stated: with negative caching, add_negative leaves an entry that
\* answers the lookups of the path and that only its expiry, a del or an
\* add of the path takes away; without, add_negative changes nothing and
\* the lookup misses
C22_Original ==
    [][/\ UseNegativeCache /\ call'.op = "AddNoObjectCache"
            => NegativeEntry(stat_cache', call'.key)
       /\ \A p \in Paths :
            NegativeEntry(stat_cache, p) /\ ~NegativeEntry(stat_cache', p)
              => DeletedOrReplaced(p) \/ ExpiresAtLookup(p)
       /\ NegativeEntryAnswers
       /\ DisabledIsNoOp]_vars

\* C22: as above, but the entry is also taken away by the truncation to
\* CacheSize, at any add made while the cache holds CacheSize entries or more
C22_NegativeUntilRemoved ==
    [][/\ UseNegativeCache /\ call'.op = "AddNoObjectCache"
            => NegativeEntry(stat_cache', call'.key) \/ AddsToFullCache
       /\ \A p \in Paths :
            NegativeEntry(stat_cache, p) /\ ~NegativeEntry(stat_cache', p)
              => DeletedOrReplaced(p) \/ ExpiresAtLookup(p) \/ AddsToFullCache
       /\ NegativeEntryAnswers
       /\ DisabledIsNoOp]_vars

\* the lookup of a path was answered "known not to exist" from an entry as
\* old as it may be, while the cache holds another entry too
C22_Witness ==
    /\ call.op = "IsNoObjectCache"
    /\ call.ret
    /\ NegativeEntry(stat_cache, call.key)
    /\ now - stat_cache[call.key].cache_date = ExpireTime
    /\ Cardinality(DOMAIN stat_cache) = 2

\* p is cached with a positive no-truncate counter
Pinned(sc, p) == p \in DOMAIN sc /\ sc[p].notruncate > 0

\* p is named in the no-truncate list of its parent directory
InNotruncateList(nt, p) ==
    /\ p.dir \in DOMAIN nt
    /\ \E i \in 1..Len(nt[p.dir]) : nt[p.dir][i] = ChildName(p)

\* the step is an add that ran (a negative add does nothing while negative
\* caching is off), which ends with the truncation to CacheSize
AddStep ==
    \/ call'.op = "AddStat"
    \/ call'.op = "AddNoObjectCache" /\ UseNegativeCache

\* the entries an add of another path took away
Evicted == {p \in DOMAIN stat_cache \ DOMAIN stat_cache' : p # call'.key}

\* an add leaves the pinned entries of the other paths as they were, and
\* every pinned entry is named in the list of its parent directory
PinnedAreKept ==
    /\ AddStep => \A p \in DOMAIN stat_cache :
          Pinned(stat_cache, p) /\ p # call'.key
            => p \in DOMAIN stat_cache' /\ stat_cache'[p] = stat_cache[p]
    /\ \A p \in DOMAIN stat_cache' :
          Pinned(stat_cache', p) => InNotruncateList(notruncate_file_cache', p)

\* what an add takes away is no younger than any entry it could have
\* taken and left
OldestFirst ==
    AddStep => \A q \in Evicted, r \in Removable(stat_cache') :
                  stat_cache[q].cache_date <= stat_cache'[r].cache_date

\* C23 as stated: the truncation removes no pinned entry, every pinned path
\* is in its parent's list, and the unpinned entries go oldest first until
\* the count is at most CacheSize or only pinned entries remain
C23_Original ==
    [][/\ PinnedAreKept
       /\ OldestFirst
       /\ AddStep => \/ Cardinality(DOMAIN stat_cache') <= CacheSize
                     \/ \A p \in DOMAIN stat_cache' : Pinned(stat_cache', p)]_vars

\* C23: as above, until the count is at most CacheSize or only pinned
\* entries and entries marked force remain
C23_PinnedSurviveTruncation ==
    [][/\ PinnedAreKept
       /\ OldestFirst
       /\ AddStep => \/ Cardinality(DOMAIN stat_cache') <= CacheSize
                     \/ Removable(stat_cache') = {}]_vars

\* an add of a third path to a full cache of two unpinned entries has
\* taken the older of the two away and has left the younger
C23_Witness ==
    /\ call.op = "AddStat"
    /\ CacheSize = 2
    /\ \E q \in DOMAIN call.evicted, r \in Removable(stat_cache) \ {call.key} :
          /\ q # call.key
          /\ call.evicted[q] < stat_cache[r].cache_date
          /\ stat_cache[r].cache_date < now

\* an add to a full cache has left an older pinned entry in place and in
\* its parent's list, and has taken an unpinned entry away
PinnedKeptWhileEvicting ==
    /\ call.op = "AddStat"
    /\ call.evicted # <<>>
    /\ \E p \in DOMAIN stat_cache :
          /\ Pinned(stat_cache, p)
          /\ stat_cache[p].cache_date < now
          /\ \A q \in DOMAIN call.evicted : stat_cache[p].cache_date <= call.evicted[q]
          /\ InNotruncateList(notruncate_file_cache, p)

\* ---------------------------------------------------------------------
\* PageList: the byte ranges of one open file with their flags.  The class
\* is not part of the sources at hand; the operations follow the design
\* description (mark_dirty, mark_loaded, mark_uploaded on a range of the
\* file: split at the range's boundaries, set the flags inside, coalesce).
\* ---------------------------------------------------------------------

\* largest file, in bytes, of the page-list runs
MaxPageBytes == 3

\* one page: bytes [offset, offset + bytes) with its three flags
Page(offset, bytes, loaded, modified, uploaded) ==
    [offset |-> offset, bytes |-> bytes, loaded |-> loaded,
     modified |-> modified, uploaded |-> uploaded]

PageEnd(pg) == pg.offset + pg.bytes

PageFlags(pg) == <<pg.loaded, pg.modified, pg.uploaded>>

\* the list of a file just opened: one unloaded, clean page over the file
InitPages(size) ==
    IF size = 0 THEN <<>> ELSE <<Page(0, size, FALSE, FALSE, FALSE)>>

\* the list with the page that holds byte `at` in its inside cut at `at`
RECURSIVE SplitAt(_, _)
SplitAt(pl, at) ==
    IF pl = <<>> THEN <<>>
    ELSE LET pg == Head(pl) IN
         IF pg.offset < at /\ at < PageEnd(pg)
         THEN <<[pg EXCEPT !.bytes = at - pg.offset],
                [pg EXCEPT !.offset = at, !.bytes = PageEnd(pg) - at]>> \o Tail(pl)
         ELSE <<pg>> \o SplitAt(Tail(pl), at)

\* the three flag changes
SetDirty(pg)    == [pg EXCEPT !.modified = TRUE]
SetLoaded(pg)   == [pg EXCEPT !.loaded = TRUE]
SetUploaded(pg) == [pg EXCEPT !.uploaded = TRUE, !.modified = FALSE]

Change(kind, pg) ==
    CASE kind = "mark_dirty"    -> SetDirty(pg)
      [] kind = "mark_loaded"   -> SetLoaded(pg)
      [] kind = "mark_uploaded" -> SetUploaded(pg)

\* the pages inside [start, start + size) changed, the others kept
SetRange(pl, start, size, kind) ==
    [i \in 1..Len(pl) |->
        IF start <= pl[i].offset /\ PageEnd(pl[i]) <= start + size
        THEN Change(kind, pl[i]) ELSE pl[i]]

\* neighbours left as they are
Compress_KeepsNeighbours(pl) == pl

\* neighbours with the same flags made one page
RECURSIVE Compress(_)
Compress(pl) ==
    IF Len(pl) < 2 THEN pl
    ELSE IF PageFlags(pl[1]) = PageFlags(pl[2])
         THEN Compress(<<[pl[1] EXCEPT !.bytes = pl[1].bytes + pl[2].bytes]>>
                       \o SubSeq(pl, 3, Len(pl)))
         ELSE <<pl[1]>> \o Compress(Tail(pl))

\* one marking operation on a range of the file
Mark(pl, start, size, kind) ==
    Compress(SetRange(SplitAt(SplitAt(pl, start), start + size), start, size, kind))

mark_dirty(pl, start, size)    == Mark(pl, start, size, "mark_dirty")
mark_loaded(pl, start, size)   == Mark(pl, start, size, "mark_loaded")
mark_uploaded(pl, start, size) == Mark(pl, start, size, "mark_uploaded")

pagesRest == <<sessVars, thrVars, hdlVars, cacheVars, input, sigVars,
               max_mp_size, use_copy, untreated, last_untreated>>

\* the non-empty ranges of the file
Ranges == {r \in (0..file_size) \X (1..file_size) : r[1] + r[2] <= file_size}

PagesMarkDirty ==
    \E r \in Ranges :
        /\ pages' = mark_dirty(pages, r[1], r[2])
        /\ call' = [op |-> "mark_dirty", start |-> r[1], size |-> r[2]]
        /\ UNCHANGED <<file_size, pagesRest>>

PagesMarkLoaded ==
    \E r \in Ranges :
        /\ pages' = mark_loaded(pages, r[1], r[2])
        /\ call' = [op |-> "mark_loaded", start |-> r[1], size |-> r[2]]
        /\ UNCHANGED <<file_size, pagesRest>>

PagesMarkUploaded ==
    \E r \in Ranges :
        /\ pages' = mark_uploaded(pages, r[1], r[2])
        /\ call' = [op |-> "mark_uploaded", start |-> r[1], size |-> r[2]]
        /\ UNCHANGED <<file_size, pagesRest>>

InitPageList ==
    /\ max_mp_size = MinOf(MpSizes)
    /\ file_size \in 1..MaxPageBytes
    /\ use_copy = FALSE
    /\ untreated = <<>>
    /\ last_untreated = -1
    /\ SessionIdle
    /\ call = NoCall
    /\ pc = <<>>
    /\ local = <<>>
    /\ worker = <<>>
    /\ hist = <<>>
    /\ handle = <<>>
    /\ pseudofd_list = {}
    /\ NoStatCache
    /\ input = <<>>
    /\ NoSignals
    /\ pages = InitPages(file_size)

NextPages ==
    \/ PagesMarkDirty
    \/ PagesMarkLoaded
    \/ PagesMarkUploaded

SpecPages == InitPageList /\ [][NextPages]_vars

\* ---------------------------------------------------------------------
\* Claims on the page list (SpecPages)
\* ---------------------------------------------------------------------

\* no byte is in two pages
PagesDisjoint ==
    \A i, j \in 1..Len(pages) :
        i < j => PageEnd(pages[i]) <= pages[j].offset

\* the pages, in order, tile [0, file_size) with no gap
PagesCover ==
    /\ \A i \in 1..Len(pages) : pages[i].bytes > 0
    /\ Len(pages) > 0 /\ pages[1].offset = 0
    /\ \A i \in 1..(Len(pages) - 1) : pages[i + 1].offset = PageEnd(pages[i])
    /\ PageEnd(pages[Len(pages)]) = file_size

\* C24: in every state reached by mark_dirty, mark_loaded and mark_uploaded
\* on a file of a given size the pages are pairwise disjoint, cover
\* [0, size) with no gap, and no two neighbours have the same three flags
C24_PagesTileTheFile ==
    /\ PagesDisjoint
    /\ PagesCover
    /\ \A i \in 1..(Len(pages) - 1) : PageFlags(pages[i]) # PageFlags(pages[i + 1])

\* an upload mark on a part of the file has joined its range to the rest,
\* which was uploaded before: a single page
C24_Witness ==
    /\ call.op = "mark_uploaded"
    /\ call.size < file_size
    /\ Len(pages) = 1
    /\ pages[1].uploaded

\* ---------------------------------------------------------------------
\* string_util.cpp: the encoders and decoders.  A string is a sequence of
\* bytes (0..255); `input` is the argument and `call` the last function
\* applied to it with its results.
\* ---------------------------------------------------------------------

\* longest input, in bytes
MaxLen == 3

\* the byte at position i (from 1) of a zero-terminated string
ByteAt(s, i) == IF i <= Len(s) THEN s[i] ELSE 0

\* what c_str() hands to a function that reads up to the first zero byte
RECURSIVE c_str(_)
c_str(s) ==
    IF s = <<>> \/ Head(s) = 0 THEN <<>> ELSE <<Head(s)>> \o c_str(Tail(s))

encode_general_except_chars == <<46, 45, 95, 126>>
encode_path_except_chars    == <<46, 45, 95, 126, 47>>
encode_query_except_chars   == <<46, 45, 95, 126, 61, 38, 37>>

\* nullptr != strchr(except_chars, c): the terminating zero is found too
strchr(except_chars, c) ==
    c = 0 \/ \E i \in 1..Len(except_chars) : except_chars[i] = c

\* one character of "0123456789ABCDEF"
hexAlphabet(n) == IF n < 10 THEN 48 + n ELSE 65 + (n - 10)

s3fs_hex_upper(c) == <<hexAlphabet(c \div 16), hexAlphabet(c % 16)>>

RECURSIVE rawUrlEncode(_, _)
rawUrlEncode(s, except_chars) ==
    IF s = <<>> THEN <<>>
    ELSE LET c == Head(s) IN
         (IF \/ strchr(except_chars, c)
             \/ (c >= 97 /\ c <= 122)
             \/ (c >= 65 /\ c <= 90)
             \/ (c >= 48 /\ c <= 57)
          THEN <<c>>
          ELSE <<37>> \o s3fs_hex_upper(c))
         \o rawUrlEncode(Tail(s), except_chars)

urlEncodeGeneral(s) == rawUrlEncode(s, encode_general_except_chars)
urlEncodePath(s)    == rawUrlEncode(s, encode_path_except_chars)
urlEncodeQuery(s)   == rawUrlEncode(s, encode_query_except_chars)

\* the value of a decimal digit only
HexValue_DigitsOnly(c) ==
    IF 48 <= c /\ c <= 57 THEN c - 48 ELSE 0

\* the value of a hexadecimal digit of urlDecode; 0 for any other byte
HexValue(c) ==
    IF 48 <= c /\ c <= 57 THEN c - 48
    ELSE IF 65 <= c /\ c <= 70 THEN c - 65 + 10
    ELSE IF 97 <= c /\ c <= 102 THEN c - 97 + 10
    ELSE 0

\* urlDecode from position i on; a '%' with fewer than two bytes after it
\* ends the result
RECURSIVE urlDecodeFrom(_, _)
urlDecodeFrom(s, i) ==
    IF i > Len(s) THEN <<>>
    ELSE IF s[i] # 37 THEN <<s[i]>> \o urlDecodeFrom(s, i + 1)
    ELSE IF Len(s) <= i THEN <<>>
    ELSE IF Len(s) <= i + 1 THEN <<>>
    ELSE <<((HexValue(s[i + 1]) * 16 + HexValue(s[i + 2])) % 256)>>
         \o urlDecodeFrom(s, i + 3)

urlDecode(s) == urlDecodeFrom(s, 1)

\* one character of the base64 table "A-Za-z0-9+/=" (index 64 is '=')
base(n) ==
    IF n < 26 THEN 65 + n
    ELSE IF n < 52 THEN 97 + (n - 26)
    ELSE IF n < 62 THEN 48 + (n - 52)
    ELSE IF n = 62 THEN 43
    ELSE IF n = 63 THEN 47
    ELSE 61

\* s3fs_base64 from position rpos on, three bytes to four characters
RECURSIVE s3fs_base64From(_, _)
s3fs_base64From(in, rpos) ==
    IF rpos > Len(in) THEN <<>>
    ELSE LET length == Len(in)
             b1 == IF rpos + 1 <= length THEN in[rpos + 1] ELSE 0
             b2 == IF rpos + 2 <= length THEN in[rpos + 2] ELSE 0
             parts0 == (in[rpos] \div 4)
             parts1 == (in[rpos] % 4) * 16 + (b1 \div 16)
             parts2 == IF rpos + 1 <= length THEN (in[rpos + 1] % 16) * 4 + (b2 \div 64) ELSE 64
             parts3 == IF rpos + 2 <= length THEN (in[rpos + 2] % 64) ELSE 64
         IN  <<base(parts0), base(parts1), base(parts2), base(parts3)>>
             \o s3fs_base64From(in, rpos + 3)

s3fs_base64(in) == s3fs_base64From(in, 1)

\* the padding character read as the value 0
char_decode64_PadIsZero(ch) ==
    IF 65 <= ch /\ ch <= 90 THEN ch - 65
    ELSE IF 97 <= ch /\ ch <= 122 THEN ch - 97 + 26
    ELSE IF 48 <= ch /\ ch <= 57 THEN ch - 48 + 52
    ELSE IF ch = 43 THEN 62
    ELSE IF ch = 47 THEN 63
    ELSE IF ch = 61 THEN 0
    ELSE 255

char_decode64(ch) ==
    IF 65 <= ch /\ ch <= 90 THEN ch - 65
    ELSE IF 97 <= ch /\ ch <= 122 THEN ch - 97 + 26
    ELSE IF 48 <= ch /\ ch <= 57 THEN ch - 48 + 52
    ELSE IF ch = 43 THEN 62
    ELSE IF ch = 47 THEN 63
    ELSE IF ch = 61 THEN 64
    ELSE 255

\* s3fs_decode64 from position rpos on, four characters to at most three
\* bytes; a padding value in the third or fourth place ends the result
RECURSIVE s3fs_decode64From(_, _)
s3fs_decode64From(in, rpos) ==
    IF rpos > Len(in) THEN <<>>
    ELSE LET input_len == Len(in)
             parts0 == char_decode64(in[rpos])
             parts1 == IF rpos + 1 <= input_len THEN char_decode64(in[rpos + 1]) ELSE 64
             parts2 == IF rpos + 2 <= input_len THEN char_decode64(in[rpos + 2]) ELSE 64
             parts3 == IF rpos + 3 <= input_len THEN char_decode64(in[rpos + 3]) ELSE 64
             first  == ((parts0 * 4) % 256) + ((parts1 \div 16) % 4)
             second == ((parts1 * 16) % 256) + ((parts2 \div 4) % 16)
             third  == ((parts2 * 64) % 256) + (parts3 % 64)
         IN  IF parts2 = 64 THEN <<first>>
             ELSE IF parts3 = 64 THEN <<first, second>>
             ELSE <<first, second, third>> \o s3fs_decode64From(in, rpos + 4)

s3fs_decode64(in) == s3fs_decode64From(in, 1)

\* base of the private region the invalid bytes are moved to (0xe000)
escape_base == 57344

\* (x & 0xc0) == 0x80: a continuation byte
IsContinuation(x) == (x \div 64) = 2

\* the three bytes that stand for the invalid byte c
Escaped(c) ==
    LET escape == escape_base + c IN
    <<224 + ((escape \div 4096) % 16), 128 + ((escape \div 64) % 64), 128 + (escape % 64)>>

\* s3fs_wtf8_encode(const char*, std::string*) from position i on
RECURSIVE s3fs_wtf8_encodeFrom(_, _)
s3fs_wtf8_encodeFrom(s, i) ==
    IF i > Len(s) THEN <<>>
    ELSE LET c  == s[i]
             s1 == ByteAt(s, i + 1)
             s2 == ByteAt(s, i + 2)
             s3 == ByteAt(s, i + 3)
             start  == c >= 194 /\ c <= 245
             two    == (c \div 32) = 6 /\ IsContinuation(s1)
             three  == (c \div 16) = 14 /\ IsContinuation(s1) /\ IsContinuation(s2)
             code3  == (c % 16) * 4096 + (s1 % 64) * 64 + (s2 % 64)
             four   == (c \div 8) = 30 /\ IsContinuation(s1) /\ IsContinuation(s2)
                         /\ IsContinuation(s3)
             code4  == (c % 8) * 262144 + (s1 % 64) * 4096 + (s2 % 64) * 64 + (s3 % 64)
         IN  IF c <= 127 THEN <<c>> \o s3fs_wtf8_encodeFrom(s, i + 1)
             ELSE IF start /\ two THEN <<c, s1>> \o s3fs_wtf8_encodeFrom(s, i + 2)
             ELSE IF start /\ three /\ code3 >= 2048 /\ ~(code3 >= 55296 /\ code3 <= 55551)
                  THEN <<c, s1, s2>> \o s3fs_wtf8_encodeFrom(s, i + 3)
             ELSE IF start /\ four /\ code4 >= 65536 /\ code4 <= 1114111
                  THEN <<c, s1, s2, s3>> \o s3fs_wtf8_encodeFrom(s, i + 4)
             ELSE Escaped(c) \o s3fs_wtf8_encodeFrom(s, i + 1)

\* s3fs_wtf8_encode(const std::string&)
s3fs_wtf8_encode(s) == s3fs_wtf8_encodeFrom(c_str(s), 1)

\* s3fs_wtf8_decode(const char*, std::string*) from position i on
RECURSIVE s3fs_wtf8_decodeFrom(_, _)
s3fs_wtf8_decodeFrom(s, i) ==
    IF i > Len(s) THEN <<>>
    ELSE LET c    == s[i]
             s1   == ByteAt(s, i + 1)
             s2   == ByteAt(s, i + 2)
             code == (c % 16) * 4096 + (s1 % 64) * 64 + (s2 % 64)
         IN  IF /\ (c \div 16) = 14 /\ IsContinuation(s1) /\ IsContinuation(s2)
                /\ code >= escape_base /\ code <= escape_base + 255
             THEN <<code - escape_base>> \o s3fs_wtf8_decodeFrom(s, i + 3)
             ELSE <<c>> \o s3fs_wtf8_decodeFrom(s, i + 1)

\* s3fs_wtf8_decode(const std::string&)
s3fs_wtf8_decode(s) == s3fs_wtf8_decodeFrom(c_str(s), 1)

\* strbase.find_first_of(chars, startpos): the first position from startpos
\* (from 1) holding one of chars, 0 for npos
RECURSIVE find_first_of(_, _, _)
find_first_of(s, chars, startpos) ==
    IF startpos > Len(s) THEN 0
    ELSE IF s[startpos] \in chars THEN startpos
    ELSE find_first_of(s, chars, startpos + 1)

\* the bytes of s from position from to position to
substr(s, from, to) == SubSeq(s, from, to)

\* get_encoded_cr_code from startpos on
RECURSIVE get_encoded_cr_codeFrom(_, _)
get_encoded_cr_codeFrom(strbase, startpos) ==
    LET foundpos == find_first_of(strbase, {37, 13}, startpos) IN
    IF startpos > Len(strbase) THEN <<>>
    ELSE IF foundpos = 0 THEN substr(strbase, startpos, Len(strbase))
    ELSE substr(strbase, startpos, foundpos - 1)
         \o (IF strbase[foundpos] = 37 THEN <<37, 52, 53>> ELSE <<37, 48, 68>>)
         \o get_encoded_cr_codeFrom(strbase, foundpos + 1)

get_encoded_cr_code(pbase) == get_encoded_cr_codeFrom(c_str(pbase), 1)

\* only the first byte compared
compare_FirstByteOnly(s, pos, lit) == s[pos] = lit[1]

\* 0 == strencode.compare(pos, len, lit), all of lit within the string
compare(s, pos, lit) ==
    /\ pos + Len(lit) - 1 <= Len(s)
    /\ \A k \in 1..Len(lit) : s[pos + k - 1] = lit[k]

\* get_decoded_cr_code from startpos on
RECURSIVE get_decoded_cr_codeFrom(_, _)
get_decoded_cr_codeFrom(strencode, startpos) ==
    LET foundpos == find_first_of(strencode, {37}, startpos)
        encodelength == Len(strencode)
    IN
    IF startpos > encodelength THEN <<>>
    ELSE IF foundpos = 0 THEN substr(strencode, startpos, encodelength)
    ELSE substr(strencode, startpos, foundpos - 1)
         \o (IF foundpos + 2 <= encodelength /\ compare(strencode, foundpos, <<37, 52, 53>>)
             THEN <<37>> \o get_decoded_cr_codeFrom(strencode, foundpos + 3)
             ELSE IF foundpos + 2 <= encodelength /\ compare(strencode, foundpos, <<37, 48, 68>>)
             THEN <<13>> \o get_decoded_cr_codeFrom(strencode, foundpos + 3)
             ELSE IF foundpos + 1 <= encodelength /\ compare(strencode, foundpos, <<37, 37>>)
             THEN <<37>> \o get_decoded_cr_codeFrom(strencode, foundpos + 2)
             ELSE <<37>> \o get_decoded_cr_codeFrom(strencode, foundpos + 1))

get_decoded_cr_code(pencode) == get_decoded_cr_codeFrom(c_str(pencode), 1)

\* the strings of at most n bytes over an alphabet
StringsUpTo(alphabet, n) == UNION {[1..k -> alphabet] : k \in 0..n}

\* sample bytes: NUL % / = 1 4 and one byte above 0x7f
UrlBytes == {0, 37, 47, 61, 49, 52, 233}

\* sample bytes whose six-bit groups reach the letters, digits, '+' and '/'
Base64Bytes == {0, 77, 97, 250, 255}

\* sample bytes: NUL, 'a', the two bytes of U+00E9, the three bytes of
\* U+E080 (inside the escape region), and 0xff
Wtf8Bytes == {0, 97, 195, 169, 238, 130, 128, 255}

\* sample bytes: % CR 0 4 5 D x
CrBytes == {37, 13, 48, 52, 53, 68, 120}

Inputs ==
    StringsUpTo(UrlBytes, MaxLen) \cup StringsUpTo(Base64Bytes, MaxLen)
      \cup StringsUpTo(Wtf8Bytes, MaxLen) \cup StringsUpTo(CrBytes, MaxLen)

strRest == <<sessVars, fileVars, thrVars, hdlVars, cacheVars, pages, input, sigVars>>

\* the last function applied to input: what it gave, and what its
\* decoder gave back
Applied(op, encoded, decoded) ==
    [op |-> op, encoded |-> encoded, decoded |-> decoded]

StrUrlEncodeGeneral ==
    /\ call' = Applied("urlEncodeGeneral", urlEncodeGeneral(input),
                       urlDecode(urlEncodeGeneral(input)))
    /\ UNCHANGED strRest

StrUrlEncodePath ==
    /\ call' = Applied("urlEncodePath", urlEncodePath(input),
                       urlDecode(urlEncodePath(input)))
    /\ UNCHANGED strRest

StrUrlEncodeQuery ==
    /\ call' = Applied("urlEncodeQuery", urlEncodeQuery(input),
                       urlDecode(urlEncodeQuery(input)))
    /\ UNCHANGED strRest

StrBase64 ==
    /\ call' = Applied("s3fs_base64", s3fs_base64(input),
                       s3fs_decode64(s3fs_base64(input)))
    /\ UNCHANGED strRest

StrWtf8Encode ==
    /\ call' = Applied("s3fs_wtf8_encode", s3fs_wtf8_encode(input),
                       s3fs_wtf8_decode(s3fs_wtf8_encode(input)))
    /\ UNCHANGED strRest

\* the decoder alone, on input as it is
StrWtf8Decode ==
    /\ call' = Applied("s3fs_wtf8_decode", input, s3fs_wtf8_decode(input))
    /\ UNCHANGED strRest

\* the CR encoder takes a zero-terminated string
StrCrCode ==
    /\ 0 \notin {input[i] : i \in 1..Len(input)}
    /\ call' = Applied("get_encoded_cr_code", get_encoded_cr_code(input),
                       get_decoded_cr_code(get_encoded_cr_code(input)))
    /\ UNCHANGED strRest

InitStrings ==
    /\ max_mp_size = MinOf(MpSizes)
    /\ file_size = 0
    /\ use_copy = FALSE
    /\ untreated = <<>>
    /\ last_untreated = -1
    /\ SessionIdle
    /\ call = NoCall
    /\ pc = <<>>
    /\ local = <<>>
    /\ worker = <<>>
    /\ hist = <<>>
    /\ handle = <<>>
    /\ pseudofd_list = {}
    /\ NoStatCache
    /\ pages = <<>>
    /\ NoSignals
    /\ input \in Inputs

NextStrings ==
    \/ StrUrlEncodeGeneral
    \/ StrUrlEncodePath
    \/ StrUrlEncodeQuery
    \/ StrBase64
    \/ StrWtf8Encode
    \/ StrWtf8Decode
    \/ StrCrCode

SpecStrings == InitStrings /\ [][NextStrings]_vars

\* ---------------------------------------------------------------------
\* Claims on the encoders and decoders (SpecStrings)
\* ---------------------------------------------------------------------

BytesOf(s) == {s[i] : i \in 1..Len(s)}

\* C25 as stated: decoding what any of the three URL encoders gave returns
\* the input, for every byte string
C25_Original ==
    call.op \in {"urlEncodeGeneral", "urlEncodePath", "urlEncodeQuery"}
      => call.decoded = input

\* C25: urlDecode after urlEncodeGeneral or urlEncodePath returns the input
\* for every byte string, and urlDecode after urlEncodeQuery returns it for
\* every byte string without a '%'
C25_UrlRoundTrip ==
    /\ call.op \in {"urlEncodeGeneral", "urlEncodePath"} => call.decoded = input
    /\ call.op = "urlEncodeQuery" /\ 37 \notin BytesOf(input) => call.decoded = input

\* the general encoder has escaped a '%' and a byte above 0x7f, and the
\* decoder has given the input back
C25_Witness ==
    /\ call.op = "urlEncodeGeneral"
    /\ {37, 233} \subseteq BytesOf(input)
    /\ Len(call.encoded) = Len(input) + 4
    /\ call.decoded = input

\* C26: s3fs_decode64 after s3fs_base64 returns the input for every byte
\* string, of a length that is a multiple of 3 or not, the empty one too
C26_Base64RoundTrip ==
    call.op = "s3fs_base64" => call.decoded = input

\* two bytes have been encoded as three characters and one '=', and decoded
\* to the two bytes
C26_Witness ==
    /\ call.op = "s3fs_base64"
    /\ Len(input) = 2
    /\ Len(call.encoded) = 4
    /\ call.encoded[4] = 61 /\ call.encoded[3] # 61
    /\ call.decoded = input

\* s from position i on is a sequence of well-formed UTF-8 encodings
\* (Unicode table 3-7), none of them of a code point U+E000..U+E0FF
RECURSIVE Utf8OutsideEscapes(_, _)
Utf8OutsideEscapes(s, i) ==
    IF i > Len(s) THEN TRUE
    ELSE LET c  == s[i]
             s1 == ByteAt(s, i + 1)
             s2 == ByteAt(s, i + 2)
             s3 == ByteAt(s, i + 3)
             code3 == (c % 16) * 4096 + (s1 % 64) * 64 + (s2 % 64)
             code4 == (c % 8) * 262144 + (s1 % 64) * 4096 + (s2 % 64) * 64 + (s3 % 64)
         IN  \/ c <= 127 /\ Utf8OutsideEscapes(s, i + 1)
             \/ /\ 194 <= c /\ c <= 223
                /\ IsContinuation(s1)
                /\ Utf8OutsideEscapes(s, i + 2)
             \/ /\ 224 <= c /\ c <= 239
                /\ IsContinuation(s1) /\ IsContinuation(s2)
                /\ code3 >= 2048 /\ ~(55296 <= code3 /\ code3 <= 57343)
                /\ ~(57344 <= code3 /\ code3 <= 57599)
                /\ Utf8OutsideEscapes(s, i + 3)
             \/ /\ 240 <= c /\ c <= 244
                /\ IsContinuation(s1) /\ IsContinuation(s2) /\ IsContinuation(s3)
                /\ 65536 <= code4 /\ code4 <= 1114111
                /\ Utf8OutsideEscapes(s, i + 4)

\* C27 as stated: s3fs_wtf8_decode after s3fs_wtf8_encode returns the
\* input for every byte string without a zero byte, valid UTF-8 or not, and
\* s3fs_wtf8_decode alone returns its input when that is valid UTF-8 with
\* no code point U+E000..U+E0FF
C27_Original ==
    /\ call.op = "s3fs_wtf8_encode" /\ 0 \notin BytesOf(input)
         => call.decoded = input
    /\ call.op = "s3fs_wtf8_decode" /\ 0 \notin BytesOf(input)
         /\ Utf8OutsideEscapes(input, 1)
         => call.decoded = input

\* the encoded form has no CR and no '%' but the one that starts "%45" or
\* "%0D"
CrCodeEscaped(s) ==
    /\ 13 \notin BytesOf(s)
    /\ \A i \in 1..Len(s) :
          s[i] = 37 => /\ i + 2 <= Len(s)
                       /\ <<s[i + 1], s[i + 2]>> \in {<<52, 53>>, <<48, 68>>}

\* C28: get_decoded_cr_code after get_encoded_cr_code returns the input for
\* every string, and the encoded form has no raw CR and no '%' other than
\* the first character of "%45" or "%0D"
C28_CrCodeRoundTrip ==
    call.op = "get_encoded_cr_code"
      => call.decoded = input /\ CrCodeEscaped(call.encoded)

\* a string with a CR and a '%' has been encoded, to a longer string, and
\* decoded to itself
C28_Witness ==
    /\ call.op = "get_encoded_cr_code"
    /\ {13, 37} \subseteq BytesOf(input)
    /\ Len(call.encoded) >= Len(input) + 4
    /\ call.decoded = input

\* ---------------------------------------------------------------------
\* sighandlers.cpp: the SIGUSR1 handler and its cache-check thread.
\* pSemUsr1 is the count of the semaphore (Null before it is made),
\* pThreadUsr1 the thread object (Null before it is made), pc the place of
\* the thread in CheckCacheWorker and of the owner in the object's life,
\* hist the wake-ups released, the checks run and whether SetUsr1Handler
\* has set enableUsr1 again after DestroyUsr1Handler had cleared it.
\* ---------------------------------------------------------------------

\* most wake-ups in a run
MaxSignals == 3

\* the state InitUsr1Handler leaves: Semaphore(0), the thread at the top
\* of CheckCacheWorker
InitUsr1Handler ==
    /\ enableUsr1 = TRUE
    /\ pSemUsr1 = 0
    /\ pThreadUsr1 = 1
    /\ pc = [main |-> "run", worker |-> "start"]
    /\ hist = [wakeups |-> 0, checks |-> 0, reenabled |-> FALSE]

sigRest == <<sessVars, fileVars, local, worker, hdlVars, cacheVars, pages, input>>

At(who, where) == pc[who] = where

Goto(who, where) == pc' = [pc EXCEPT ![who] = where]

\* SetUsr1Handler, lines 74-90, a static method that any thread calls at
\* any time: enableUsr1 = true (line 87) unless the system has no
\* SEEK_HOLE or the output file cannot be set (ok)
SigSetUsr1Handler ==
    /\ \E ok \in BOOLEAN :
         /\ enableUsr1' = IF ok THEN TRUE ELSE enableUsr1
         /\ hist' = [hist EXCEPT !.reenabled = @ \/ (ok /\ ~enableUsr1)]
         /\ call' = [op |-> "SetUsr1Handler", ret |-> ok]
    /\ UNCHANGED <<pSemUsr1, pThreadUsr1, pc, sigRest>>

\* HandlerUSR1 -> WakeupUsr1Thread: release, or false when the thread or
\* the semaphore is not set up
SigWakeupUsr1Thread ==
    /\ hist.wakeups < MaxSignals
    /\ IF pThreadUsr1 = Null \/ pSemUsr1 = Null
       THEN /\ call' = [op |-> "WakeupUsr1Thread", ret |-> FALSE]
            /\ UNCHANGED <<pSemUsr1, hist>>
       ELSE /\ pSemUsr1' = pSemUsr1 + 1
            /\ hist' = [hist EXCEPT !.wakeups = @ + 1]
            /\ call' = [op |-> "WakeupUsr1Thread", ret |-> TRUE]
    /\ UNCHANGED <<enableUsr1, pThreadUsr1, pc, sigRest>>

\* CheckCacheWorker, lines 94-99: return when there is no semaphore or the
\* handler is off
SigWorkerEnter ==
    /\ At("worker", "start")
    /\ Goto("worker", IF enableUsr1 THEN "loop" ELSE "exit")
    /\ call' = [op |-> "CheckCacheWorker"]
    /\ UNCHANGED <<enableUsr1, pSemUsr1, pThreadUsr1, hist, sigRest>>

\* while(S3fsSignals::enableUsr1)
SigWorkerLoop ==
    /\ At("worker", "loop")
    /\ Goto("worker", IF enableUsr1 THEN "acquire" ELSE "exit")
    /\ call' = [op |-> "while"]
    /\ UNCHANGED <<enableUsr1, pSemUsr1, pThreadUsr1, hist, sigRest>>

\* pSem->acquire(): blocks while the count is 0
SigWorkerAcquire ==
    /\ At("worker", "acquire")
    /\ pSemUsr1 > 0
    /\ pSemUsr1' = pSemUsr1 - 1
    /\ Goto("worker", "woken")
    /\ call' = [op |-> "acquire"]
    /\ UNCHANGED <<enableUsr1, pThreadUsr1, hist, sigRest>>

\* if(!S3fsSignals::enableUsr1) break
SigWorkerWoken ==
    /\ At("worker", "woken")
    /\ Goto("worker", IF enableUsr1 THEN "check" ELSE "exit")
    /\ call' = [op |-> "woken"]
    /\ UNCHANGED <<enableUsr1, pSemUsr1, pThreadUsr1, hist, sigRest>>

\* FdManager::get()->CheckAllCache() runs and returns
SigWorkerCheckAllCache ==
    /\ At("worker", "check")
    /\ hist' = [hist EXCEPT !.checks = @ + 1]
    /\ Goto("worker", "drain")
    /\ call' = [op |-> "CheckAllCache"]
    /\ UNCHANGED <<enableUsr1, pSemUsr1, pThreadUsr1, sigRest>>

\* one try_acquire only
DrainAgain_Never(acquired) == FALSE

\* while(pSem->try_acquire()); goes round while try_acquire gives true
DrainAgain(acquired) == acquired

\* one try_acquire of the drain loop
SigWorkerDrain ==
    /\ At("worker", "drain")
    /\ LET acquired == pSemUsr1 > 0 IN
       /\ pSemUsr1' = IF acquired THEN pSemUsr1 - 1 ELSE pSemUsr1
       /\ Goto("worker", IF DrainAgain(acquired) THEN "drain" ELSE "loop")
    /\ call' = [op |-> "try_acquire"]
    /\ UNCHANGED <<enableUsr1, pThreadUsr1, hist, sigRest>>

\* ~S3fsSignals -> DestroyUsr1Handler, lines 216-220: enableUsr1 = false
SigDestroyDisable ==
    /\ At("main", "run")
    /\ enableUsr1
    /\ pThreadUsr1 # Null /\ pSemUsr1 # Null
    /\ enableUsr1' = FALSE
    /\ Goto("main", "release")
    /\ call' = [op |-> "DestroyUsr1Handler"]
    /\ UNCHANGED <<pSemUsr1, pThreadUsr1, hist, sigRest>>

\* DestroyUsr1Handler, line 223: pSemUsr1->release()
SigDestroyRelease ==
    /\ At("main", "release")
    /\ pSemUsr1' = pSemUsr1 + 1
    /\ Goto("main", "join")
    /\ call' = [op |-> "release"]
    /\ UNCHANGED <<enableUsr1, pThreadUsr1, hist, sigRest>>

\* DestroyUsr1Handler, lines 226-228: join returns when the thread has left
\* CheckCacheWorker; then both objects are reset
SigDestroyJoin ==
    /\ At("main", "join")
    /\ At("worker", "exit")
    /\ pSemUsr1' = Null
    /\ pThreadUsr1' = Null
    /\ Goto("main", "done")
    /\ call' = [op |-> "join"]
    /\ UNCHANGED <<enableUsr1, hist, sigRest>>

InitSignals ==
    /\ max_mp_size = MinOf(MpSizes)
    /\ file_size = 0
    /\ use_copy = FALSE
    /\ untreated = <<>>
    /\ last_untreated = -1
    /\ SessionIdle
    /\ call = NoCall
    /\ local = <<>>
    /\ worker = <<>>
    /\ handle = <<>>
    /\ pseudofd_list = {}
    /\ NoStatCache
    /\ pages = <<>>
    /\ input = <<>>
    /\ InitUsr1Handler

SigWorker ==
    \/ SigWorkerEnter
    \/ SigWorkerLoop
    \/ SigWorkerAcquire
    \/ SigWorkerWoken
    \/ SigWorkerCheckAllCache
    \/ SigWorkerDrain

SigDestroy ==
    \/ SigDestroyDisable
    \/ SigDestroyRelease
    \/ SigDestroyJoin

NextSignals ==
    \/ SigSetUsr1Handler
    \/ SigWakeupUsr1Thread
    \/ SigWorker
    \/ SigDestroy

SpecSignals == InitSignals /\ [][NextSignals]_vars

\* the thread runs whenever it can; a destroy that has cleared the flag goes
\* on to its release and its join; SetUsr1Handler is called or not
FairSpecSignals ==
    /\ SpecSignals
    /\ WF_vars(SigWorker)
    /\ WF_vars(SigDestroyRelease \/ SigDestroyJoin)

\* ---------------------------------------------------------------------
\* Claims on the SIGUSR1 thread (FairSpecSignals)
\* ---------------------------------------------------------------------

\* a wake-up has just been released to the thread blocked in acquire
WokenWhileBlocked ==
    /\ call = [op |-> "WakeupUsr1Thread", ret |-> TRUE]
    /\ At("worker", "acquire")
    /\ pSemUsr1 = 1

\* the thread leaves the drain loop with no token left
DrainLeavesNoToken ==
    [][At("worker", "drain") /\ ~(At("worker", "drain"))' => pSemUsr1' = 0]_vars

\* the thread leaves the drain loop with no token left, and has never run
\* more checks than wake-ups were released
NothingQueued ==
    /\ DrainLeavesNoToken
    /\ [](hist.checks <= hist.wakeups)

\* C29 as stated: a wake-up released while the thread is blocked on its
\* semaphore leads to a run of CheckAllCache; the wake-ups released during
\* a check are not kept, the semaphore is empty when the thread goes back to
\* wait, and the checks never outnumber the wake-ups
C29_Original ==
    /\ WokenWhileBlocked ~> At("worker", "check")
    /\ NothingQueued

\* C29: a wake-up released while the thread is blocked on its semaphore
\* leads to a run of CheckAllCache unless enableUsr1 is false by the time
\* the thread tests it; the thread leaves the drain loop with no token
\* left; and the checks never outnumber the wake-ups, but by the one check
\* that the release of DestroyUsr1Handler starts when SetUsr1Handler has
\* set enableUsr1 again after DestroyUsr1Handler had cleared it
C29_WakeupLeadsToOneCheck ==
    /\ WokenWhileBlocked ~> (At("worker", "check") \/ ~enableUsr1)
    /\ DrainLeavesNoToken
    /\ [](hist.checks <= hist.wakeups + (IF hist.reenabled THEN 1 ELSE 0))

\* two wake-ups, one check: the second came during the check and was
\* dropped by the drain loop, and the thread is back in acquire, blocked
C29_Witness ==
    /\ hist.wakeups = 2 /\ hist.checks = 1
    /\ At("worker", "acquire")
    /\ pSemUsr1 = 0
    /\ enableUsr1

\* ---------------------------------------------------------------------
\* SpecLock: Spec with F starting where UploadBoundaryLastUntreatedArea
\* starts the session (lines 510-516): IsUploading, the initiate request
\* of PreMultipartUploadRequest and the two critical sections of
\* RowInitialUploadInfo, then ParallelMultipartUpload and the join.
\* ---------------------------------------------------------------------

\* lines 90-94 and 510: IsUploading() under the lock
LockIsUploading ==
    \/ Acquire("F", "is_uploading", "is_uploading_in")
    \/ /\ pc["F"] = "is_uploading_in"
       /\ upload_list_lock' = NoThread
       /\ pc' = [pc EXCEPT !["F"] = IF upload_id THEN "pmu_open" ELSE "pre_request"]
       /\ UNCHANGED <<upload_id, upload_list, instruct_count, last_result, uploaded_sem>>
       /\ UNCHANGED <<fileVars, call, local, worker, hist, hdlVars, restVars>>

\* lines 412-417: pre_multipart_upload_request is issued and answers
LockPreRequest ==
    /\ pc["F"] = "pre_request"
    /\ \E ok \in BOOLEAN :
         IF ok THEN pc' = [pc EXCEPT !["F"] = "row_reset"] /\ local' = local
         ELSE /\ pc' = [pc EXCEPT !["F"] = "done"]
              /\ local' = [local EXCEPT !["F"].ok = FALSE]
    /\ UNCHANGED <<sessVars, fileVars, call, worker, hist, hdlVars, restVars>>

\* lines 206-213: RowInitialUploadInfo, ResetUploadInfo under the lock
LockRowReset ==
    \/ Acquire("F", "row_reset", "row_reset_in")
    \/ /\ pc["F"] = "row_reset_in"
       /\ upload_list_lock' = NoThread
       /\ ResetUploadInfo
       /\ pc' = [pc EXCEPT !["F"] = "row_set"]
       /\ UNCHANGED <<uploaded_sem, fileVars, call, local, worker, hist, hdlVars, restVars>>

\* lines 215-217: RowInitialUploadInfo, upload_id = id under the lock
LockRowSetId ==
    \/ Acquire("F", "row_set", "row_set_in")
    \/ /\ pc["F"] = "row_set_in"
       /\ upload_list_lock' = NoThread
       /\ upload_id' = TRUE
       /\ pc' = [pc EXCEPT !["F"] = "pmu_open"]
       /\ UNCHANGED <<upload_list, instruct_count, last_result, uploaded_sem>>
       /\ UNCHANGED <<fileVars, call, local, worker, hist, hdlVars, restVars>>

InitLock ==
    /\ max_mp_size = 2
    /\ file_size = 2 * MaxParts
    /\ use_copy = FALSE
    /\ untreated = <<>>
    /\ last_untreated = -1
    /\ SessionIdle
    /\ call = NoCall
    /\ pc = [t \in Threads |-> IF t = "F" THEN "is_uploading" ELSE "idle"]
    /\ local = [t \in Threads |-> InitLocal]
    /\ worker = [w \in Workers |-> [pc |-> "idle", result |-> 0]]
    /\ hist = [ops |-> {}]
    /\ OneOpenHandle
    /\ RestIdle

NextLock ==
    \/ LockIsUploading
    \/ LockPreRequest
    \/ LockRowReset
    \/ LockRowSetId
    \/ Next

SpecLock == InitLock /\ [][NextLock]_vars

\* ---------------------------------------------------------------------
\* Claims on the lock at the suspension points (SpecLock)
\* ---------------------------------------------------------------------

\* where a request thread can be suspended: the initiate request, the
\* hand-over of a part request, the semaphore of WaitAllThreadsExit
SuspensionPoints == {"pre_request", "pmu_request", "wait_acquire"}

\* C30: no thread holds upload_list_lock at a suspension point (blocked on
\* the semaphore in WaitAllThreadsExit, issuing the initiate request,
\* handing a part request to the worker pool), and whenever the lock is
\* held its holder can take the step that frees it, so a worker that waits
\* for the lock is never shut out of it
C30_NoLockAtSuspension ==
    /\ \A t \in Threads :
          pc[t] \in SuspensionPoints => upload_list_lock # ByThread(t)
    /\ upload_list_lock # NoThread
          => ENABLED (NextLock /\ upload_list_lock' = NoThread)

\* F is blocked on the semaphore of WaitAllThreadsExit, the lock free,
\* while a worker it dispatched after the initiate request waits for the
\* lock to record its error
C30_Witness ==
    /\ pc["F"] = "wait_acquire"
    /\ upload_list_lock = NoThread
    /\ upload_id
    /\ \E w \in Workers : worker[w].pc = "record"

\* ---------------------------------------------------------------------
\* Claims on the whole-file planner's effects (SpecPlan)
\* ---------------------------------------------------------------------

\* the step is a call of ExtractUploadPartsFromAllArea
PlanStep == call.op = "none" /\ call'.op = "ExtractUploadPartsFromAllArea"

\* the list with the parts of the set gone, the others in their order
Without(list, gone) == SelectSeq(list, LAMBDA p : p \notin gone)

\* C31: ExtractUploadPartsFromAllArea leaves the caller's untreated list as
\* it was, and of the session changes the upload list only: that is the
\* list before the call without the parts of the cancel list, which were
\* all in it, the others in their order; upload_id, instruct_count and
\* last_result are unchanged
C31_PlannerFrame ==
    [][PlanStep =>
         /\ untreated' = untreated /\ last_untreated' = last_untreated
         /\ Range(call'.cancel) \subseteq Range(upload_list)
         /\ upload_list' = Without(upload_list, Range(call'.cancel))
         /\ upload_id' = upload_id
         /\ instruct_count' = instruct_count
         /\ last_result' = last_result]_vars

\* a call with untreated areas has cancelled one part and kept another
C31_Witness ==
    /\ Planned /\ call.ret
    /\ untreated # <<>>
    /\ Len(call.cancel) > 0
    /\ Len(upload_list) > 0
    /\ Len(call.old_list) = Len(upload_list) + Len(call.cancel)

\* the offsets of the bytes of [start, start + size)
BytesIn(start, size) == start..(start + size - 1)

UntreatedBytes == UNION {BytesIn(u.start, u.size) : u \in Range(untreated)}
DownloadBytes  == UNION {BytesIn(d.start, d.size) : d \in Range(call.to_download)}
CopyBytes      == UNION {BytesIn(c.start, c.size) : c \in Range(call.to_copy)}

\* no part of the list before the call reaches into the slab of the entry
SlabWasUncovered(e) ==
    \A p \in Range(call.old_list) :
        ~(SlabStart(e.part_num) < p.startpos + p.size /\ p.startpos < SlabEnd(e.part_num))

\* C32: every byte of a to_upload entry for a slab that no existing part
\* covered is in an untreated area or in a to_download entry, and no
\* to_download entry overlaps an untreated area or a to_copy entry
C32_UploadBytesAreLocal ==
    Planned =>
        /\ \A e \in Range(call.to_upload) :
              SlabWasUncovered(e)
                => BytesIn(e.start, e.size) \subseteq (UntreatedBytes \cup DownloadBytes)
        /\ DownloadBytes \cap UntreatedBytes = {}
        /\ DownloadBytes \cap CopyBytes = {}

\* with the copy in use, a slab with two untreated areas: the gap in front
\* went to the copy entry before it, the gap between them is downloaded,
\* and the upload entry starts at the first untreated byte
C32_Witness ==
    /\ Planned /\ call.ret /\ use_copy
    /\ \E e \in Range(call.to_upload) :
          /\ SlabWasUncovered(e)
          /\ e.start > SlabStart(e.part_num)
          /\ BytesIn(e.start, e.size) \cap DownloadBytes # {}
          /\ BytesIn(e.start, e.size) \cap UntreatedBytes # {}
    /\ CopyBytes # {}

\* ---------------------------------------------------------------------
\* SpecAbort: the whole-file planner on lists of up to MaxAbortParts parts
\* appended one behind the other, so that a slab can hold two parts behind
\* a slab that holds one.
\* ---------------------------------------------------------------------

MaxAbortParts == 3    \* most parts in a list

InitAbort ==
    /\ max_mp_size = MinOf(MpSizes)
    /\ file_size \in 4..MaxFileSize
    /\ use_copy \in BOOLEAN
    /\ untreated \in UntreatedLists(file_size)
    /\ last_untreated = -1
    /\ upload_id = TRUE
    /\ upload_list \in AppendedFrom(0, MaxAbortParts, 1, file_size)
    /\ instruct_count = 0
    /\ last_result = 0
    /\ uploaded_sem = 0
    /\ upload_list_lock = NoThread
    /\ call = NoCall
    /\ ThreadsIdle
    /\ OneOpenHandle
    /\ RestIdle

SpecAbort == InitAbort /\ [][NextPlan]_vars

\* the part at place k of the upload list overlaps the area on which the
\* call failed
OverFailedArea(k) ==
    /\ k \in 1..Len(upload_list)
    /\ call.failed.cur_start < upload_list[k].startpos + upload_list[k].size
    /\ upload_list[k].startpos < call.failed.cur_start + call.failed.cur_size

\* the two parts that the failed call found over one area are both in the
\* upload list, at the places where it found them
FailedAreaPartsRemain ==
    /\ call.failed.first < call.failed.second
    /\ OverFailedArea(call.failed.first)
    /\ OverFailedArea(call.failed.second)

\* C33 as stated: when the planner returns false because two parts overlap
\* one slab, the upload list is what it was before the call
C33_Original ==
    Planned /\ ~call.ret => upload_list = call.old_list

\* C33: when the planner returns false because two parts overlap one slab,
\* the upload list is what it was before the call without the parts the
\* call had cancelled for the slabs before that one, which are in the
\* cancel list; the two parts of the failing slab are still in it
C33_AbortKeepsCancelled ==
    Planned /\ ~call.ret =>
        /\ Range(call.cancel) \subseteq Range(call.old_list)
        /\ upload_list = Without(call.old_list, Range(call.cancel))
        /\ FailedAreaPartsRemain

\* a failed call that had cancelled the part of an earlier slab
C33_Witness ==
    /\ Planned /\ ~call.ret
    /\ Len(call.cancel) > 0
    /\ Len(upload_list) < Len(call.old_list)

-----------------------------------------------------------------------------
(* SpecExtract: one call of ExtractUploadPartsFromUntreatedArea on the     *)
(* lists a handle can hold (whole slabs, or parts appended one behind the  *)
(* other with sizes of the caller's choice), with an area as               *)
(* UploadBoundaryLastUntreatedArea passes it: whole slabs of the file.     *)

\* the areas of whole slabs inside a file of fsize bytes
SlabAreas(mp, fsize) ==
    {Area(k * mp, n * mp) : k \in 0..(fsize \div mp), n \in 1..(fsize \div mp)}
        \cap {a \in [start : 0..fsize, size : 1..fsize] : a.start + a.size <= fsize}

InitExtract ==
    /\ max_mp_size \in MpSizes
    /\ file_size \in 1..MaxFileSize
    /\ use_copy = FALSE
    /\ untreated = <<>>
    /\ last_untreated = -1
    /\ upload_id = TRUE
    /\ upload_list \in SlabLists(max_mp_size, file_size) \cup AppendedLists(file_size)
    /\ instruct_count = 0
    /\ last_result = 0
    /\ uploaded_sem = 0
    /\ upload_list_lock = NoThread
    /\ call = NoCall
    /\ ThreadsIdle
    /\ OneOpenHandle
    /\ RestIdle

\* one call of ExtractUploadPartsFromUntreatedArea, lines 614-688 (the
\* lock is held over the walk through the list)
ExtractCall ==
    /\ call.op = "none"
    /\ \E a \in SlabAreas(max_mp_size, file_size) :
         LET x == ExtractUploadPartsFromUntreatedArea(upload_list, a.start, a.size, max_mp_size)
         IN /\ upload_list' = x.ul
            /\ call' = [op |-> "ExtractUploadPartsFromUntreatedArea", ret |-> x.ok,
                        untreated_start |-> a.start, untreated_size |-> a.size,
                        to_upload |-> x.to_upload, cancel |-> x.cancel,
                        old_list |-> upload_list]
    /\ UNCHANGED <<upload_id, instruct_count, last_result, uploaded_sem, upload_list_lock>>
    /\ UNCHANGED <<fileVars, thrVars>>
    /\ UNCHANGED <<hdlVars, restVars>>

NextExtract == ExtractCall

SpecExtract == InitExtract /\ [][NextExtract]_vars

Extracted == call.op = "ExtractUploadPartsFromUntreatedArea"

\* the places of the upload list whose part overlaps the entry e
PartsOver(e) ==
    {i \in 1..Len(upload_list) :
        /\ e.start < upload_list[i].startpos + upload_list[i].size
        /\ upload_list[i].startpos < e.start + e.size}

ToUploadBytes == UNION {BytesIn(e.start, e.size) : e \in Range(call.to_upload)}

\* no part left in the upload list overlaps a to_upload entry
NoneLeftOverToUpload == \A e \in Range(call.to_upload) : PartsOver(e) = {}

\* every byte of every cancelled part is in a to_upload entry
CancelledAreCovered ==
    \A c \in Range(call.cancel) : BytesIn(c.startpos, c.size) \subseteq ToUploadBytes

\* C34 as stated: when ExtractUploadPartsFromUntreatedArea returns true,
\* no part left in the upload list overlaps a to_upload entry, and every
\* byte of every part moved to the cancel list is covered by a to_upload
\* entry (the existing parts anywhere inside the file)
C34_Original ==
    (Extracted /\ call.ret) => (NoneLeftOverToUpload /\ CancelledAreCovered)

\* C34 amended: when ExtractUploadPartsFromUntreatedArea returns true, no
\* part left in the upload list overlaps a to_upload entry, whatever the
\* existing parts are; and every byte of every part moved to the cancel
\* list is covered by a to_upload entry when the existing parts are each a
\* whole slab of the file
C34_CancelledAreResubmitted ==
    /\ (Extracted /\ call.ret) => NoneLeftOverToUpload
    /\ (Extracted /\ call.ret /\ OldPartsAreSlabs) => CancelledAreCovered

\* a call on a list of whole slabs that cancelled a part, left a part in
\* the list and emitted two entries
C34_Witness ==
    /\ Extracted /\ call.ret /\ OldPartsAreSlabs
    /\ Len(call.cancel) > 0
    /\ Len(upload_list) > 0
    /\ Len(call.to_upload) > 1

-----------------------------------------------------------------------------
(* FairSpec: Spec with every thread that has started a call and every      *)
(* dispatched worker scheduled again and again: a thread that waits for    *)
(* upload_list_lock or for a token of uploaded_sem runs once the lock or a *)
(* token is free often enough, and a worker runs to its release.  The      *)
(* second thread is free never to make its call.                           *)

\* the steps thread t takes inside the calls it has begun
ThreadStep(t) ==
    \/ t = "F" /\ PmuOpenUploadFd
    \/ t = "F" /\ PmuGetUploadInfo
    \/ t = "F" /\ PmuInsertUploadPart
    \/ t = "F" /\ PmuRequest
    \/ t = "F" /\ PmuIncreaseInstructionCount
    \/ WaitAllThreadsExit(t)
    \/ CancelAllThreads(t)
    \/ ClearUploadInfo(t)

FairSpec ==
    /\ Spec
    /\ \A t \in Threads : SF_vars(ThreadStep(t))
    /\ \A w \in Workers : SF_vars(Worker(w))

\* thread t is inside WaitAllThreadsExit
InWait(t) == pc[t] \in {"wait_enter", "wait_check", "wait_acquire", "wait_lock", "wait_dec"}

\* the second thread has reset the session without a join
ResetWithoutJoin == "ClearUploadInfo(false)" \in hist.ops

\* C35 as stated: with every worker releasing the semaphore once, every
\* call of WaitAllThreadsExit returns, also when the two threads are in
\* WaitAllThreadsExit or CancelAllThreads at the same time (runs in which
\* the session is reset without a join are left out)
C35_Original ==
    \A t \in Threads : (InWait(t) /\ ~ResetWithoutJoin) ~> (~InWait(t) \/ ResetWithoutJoin)

----
(* instruct_count against the workers and the tokens *)

\* no thread is inside a call (no dispatch, join or reset is in progress)
Quiescent == \A t \in Threads : pc[t] \in {"idle", "done"}

\* the workers that have been started and have not released the semaphore
Running == {w \in Workers : worker[w].pc \notin {"idle", "done"}}

\* C36 as stated: whenever no dispatch or join step is in progress,
\* instruct_count is not negative and is the number of workers still
\* running plus the number of tokens not consumed, so that no reset has set
\* it to 0 while a worker was running or a token was pending
C36_Original ==
    Quiescent =>
        /\ instruct_count >= 0
        /\ instruct_count = Cardinality(Running) + uploaded_sem

----
(* Claims on the workers of the stream (SpecStream) *)

\* C37 as stated: no part number has two workers in flight (the part that
\* replaces a cancelled one is dispatched after the earlier worker ended)
C37_Original == \A n \in StreamParts : worker[n] <= 1

----
(* The parts ParallelMultipartUpload leaves in the list *)

\* ParallelMultipartUpload has returned to F: true after the last entry
\* (F enters WaitAllThreadsExit), or false
PmuReturned == pc["F"] = "wait_enter" \/ (pc["F"] = "done" /\ ~local["F"].ok)

\* C38 as stated: when ParallelMultipartUpload returns, true or false, a
\* worker has been dispatched for every part it added to the upload list
\* and every one of them is counted in instruct_count (no other thread has
\* called the handle)
C38_Original ==
    (PmuReturned /\ hist.ops = {}) =>
        /\ \A i \in 1..Len(upload_list) : worker[upload_list[i].part_num].pc # "idle"
        /\ instruct_count = Len(upload_list)

-----------------------------------------------------------------------------
(* Claims on the upload descriptor (SpecUploadFd) *)

\* C39 as stated: the duplicated upload descriptor is closed exactly once
\* per duplication (never twice, and once when the object is gone); a
\* closed descriptor is never reported by OpenUploadFd as initialized;
\* Clear and Set leave the handle with no upload descriptor
C39_Original ==
    /\ hist.closes <= 1
    /\ ("h" \notin DOMAIN handle /\ hist.dups > 0) => hist.closes = 1
    /\ (call.op = "OpenUploadFd" /\ call.ret) => hist.open
    /\ ("h" \in DOMAIN handle /\ call.op \in {"Clear", "Set"} /\ call.ret)
          => handle["h"].upload_fd = -1

----
(* The end of the SIGUSR1 thread (FairSpecSignals) *)

\* the thread has left CheckCacheWorker, which it does at the three places
\* where it reads enableUsr1 false, and nowhere else
WorkerStaysOut ==
    [][At("worker", "exit") => (At("worker", "exit"))' /\ hist'.checks = hist.checks]_vars

\* the thread leaves its loop only on reading enableUsr1 false
LeavesOnDisabled ==
    [][~At("worker", "exit") /\ (At("worker", "exit"))' => ~enableUsr1]_vars

\* C40: DestroyUsr1Handler terminates: once it has cleared enableUsr1, the
\* thread leaves its loop, wherever it was (blocked in acquire, before or
\* in a check, in the drain loop), and the join returns; the thread that
\* has read enableUsr1 false is out of the loop and starts no CheckAllCache
C40_Original ==
    /\ At("main", "release") ~> At("main", "done")
    /\ LeavesOnDisabled
    /\ WorkerStaysOut

====
